---- MODULE Spec2Model ----
(***************************************************************************)
(* A model of the SQL compiler and in-memory database of sql_pbl:          *)
(* database.py (Table, Database and the statement executor) and            *)
(* sql_compiler.py (Lexer, Parser).                                        *)
(*                                                                         *)
(* Text is a sequence of one-character strings, so that str.lower(), the   *)
(* ordering of strings and the character tests of the lexer are computed   *)
(* and not assumed.  A Python value is a record: [ty, n, s] with ty the    *)
(* runtime type, n the int and s the text, or a float [ty, neg, m, e],     *)
(* an IEEE 754 double whose arithmetic rounds as the hardware's does.      *)
(***************************************************************************)
EXTENDS Integers, Sequences, FiniteSets, TLC

VARIABLES
    tables,     \* Database.tables: lower-cased name -> Table
    prev,       \* Database.tables as it was before the last operation
    stmt,       \* the last operation: an AST, or a direct Database call
    result,     \* what the last operation returned, raised and printed
    log,        \* the batch runner's texts so far, each with how it ended
    tokenizer,  \* a Lexer that is being read token by token
    returned,   \* the tokens its get_next_token has returned so far
    texts,      \* a text, and the texts generate_sql made of its ASTs
    asts        \* what Parser.parse made of each of the texts

database_vars == << tables, prev, stmt, result, log >>
lexer_vars == << tokenizer, returned >>
compiler_vars == << texts, asts >>

vars == << tables, prev, stmt, result, log, tokenizer, returned, texts, asts >>

(***************************************************************************)
(* Characters and text.  A text is a sequence of one-character strings.    *)
(***************************************************************************)
\* x bound to a name in Op; x is computed once
With(x, Op(_)) == Op(x)

\* the characters with code points 32..126 in order; "GRAVE" holds the place
\* of code point 96, which no text of the model contains
Ascii ==
  << " ", "!", "\"", "#", "$", "%", "&", "'", "(", ")", "*", "+", ",", "-", ".", "/",
     "0", "1", "2", "3", "4", "5", "6", "7", "8", "9", ":", ";", "<", "=", ">", "?",
     "@", "A", "B", "C", "D", "E", "F", "G", "H", "I", "J", "K", "L", "M", "N", "O",
     "P", "Q", "R", "S", "T", "U", "V", "W", "X", "Y", "Z", "[", "\\", "]", "^", "_",
     "GRAVE", "a", "b", "c", "d", "e", "f", "g", "h", "i", "j", "k", "l", "m", "n", "o",
     "p", "q", "r", "s", "t", "u", "v", "w", "x", "y", "z", "{", "|", "}", "~" >>

Uppercase ==
  << "A", "B", "C", "D", "E", "F", "G", "H", "I", "J", "K", "L", "M",
     "N", "O", "P", "Q", "R", "S", "T", "U", "V", "W", "X", "Y", "Z" >>

Lowercase ==
  << "a", "b", "c", "d", "e", "f", "g", "h", "i", "j", "k", "l", "m",
     "n", "o", "p", "q", "r", "s", "t", "u", "v", "w", "x", "y", "z" >>

Digits == << "0", "1", "2", "3", "4", "5", "6", "7", "8", "9" >>

\* the place of c in cs, 0 when it is not there
IndexIn(cs, c) ==
  IF \E i \in DOMAIN cs : cs[i] = c THEN CHOOSE i \in DOMAIN cs : cs[i] = c ELSE 0

\* characters that cannot be written in a string: each is one character
\* of a text, named by its ASCII abbreviation
Nul == "NUL"       \* '\0', code point 0; also what peek returns past the end
VT  == "VT"        \* '\v', code point 11
FS  == "FS"        \* '\x1c'
GS  == "GS"        \* '\x1d'
RS  == "RS"        \* '\x1e'
US  == "US"        \* '\x1f'

\* the characters outside code points 32..126 that a text may hold, each
\* with its code point: control characters, the no-break space, a digit
\* and a fraction that are no decimal digit, and letters beyond ASCII
Beyond ==
  << << Nul, 0 >>, << "\t", 9 >>, << "\n", 10 >>, << VT, 11 >>, << "\f", 12 >>,
     << "\r", 13 >>, << FS, 28 >>, << GS, 29 >>, << RS, 30 >>, << US, 31 >>,
     << " ", 160 >>, << "²", 178 >>, << "½", 189 >>, << "É", 201 >>, << "é", 233 >>,
     << "Α", 913 >>, << "α", 945 >> >>

\* letters beyond ASCII that str.lower() and str.upper() map to each other
UppercaseBeyond == << "É", "Α" >>
LowercaseBeyond == << "é", "α" >>

\* ord(c): the code point of a character
Ord(c) ==
  IF \E i \in DOMAIN Beyond : Beyond[i][1] = c
    THEN Beyond[CHOOSE i \in DOMAIN Beyond : Beyond[i][1] = c][2]
  ELSE 31 + IndexIn(Ascii, c)

\* str.lower() on one character
LowerChar(c) ==
  IF IndexIn(Uppercase, c) # 0 THEN Lowercase[IndexIn(Uppercase, c)]
  ELSE IF IndexIn(UppercaseBeyond, c) # 0
    THEN LowercaseBeyond[IndexIn(UppercaseBeyond, c)]
  ELSE c

\* str.upper() on one character
UpperChar(c) ==
  IF IndexIn(Lowercase, c) # 0 THEN Uppercase[IndexIn(Lowercase, c)]
  ELSE IF IndexIn(LowercaseBeyond, c) # 0
    THEN UppercaseBeyond[IndexIn(LowercaseBeyond, c)]
  ELSE c

\* str.lower()
Lower(s) == [ i \in 1..Len(s) |-> LowerChar(s[i]) ]

\* Python's s < t on str: lexicographic by code point
RECURSIVE StrLess(_, _)
StrLess(s, t) ==
  IF Len(t) = 0 THEN FALSE
  ELSE IF Len(s) = 0 THEN TRUE
  ELSE IF Head(s) # Head(t) THEN Ord(Head(s)) < Ord(Head(t))
  ELSE StrLess(Tail(s), Tail(t))

(***************************************************************************)
(* Natural numbers of any size, for the arithmetic of floats.  A number is *)
(* the sequence of its digits in base 2^15, the least significant first,   *)
(* with no zero at the top; zero is the empty sequence.                    *)
(***************************************************************************)
RECURSIVE Pow2(_)
Pow2(j) == IF j = 0 THEN 1 ELSE 2 * Pow2(j - 1)

\* a digit holds 15 binary digits
Base == Pow2(15)

Abs(i) == IF i < 0 THEN 0 - i ELSE i
Min(i, j) == IF i < j THEN i ELSE j
Max(i, j) == IF i < j THEN j ELSE i

Limb(a, i) == IF i <= Len(a) THEN a[i] ELSE 0

Reverse(s) == [ i \in 1..Len(s) |-> s[Len(s) + 1 - i] ]

RECURSIVE BTrim(_)
BTrim(a) ==
  IF Len(a) > 0 /\ a[Len(a)] = 0 THEN BTrim(SubSeq(a, 1, Len(a) - 1)) ELSE a

RECURSIVE BFromInt(_)
BFromInt(n) == IF n = 0 THEN << >> ELSE << n % Base >> \o BFromInt(n \div Base)

\* -1, 0 or 1 as a < b, a = b or a > b
RECURSIVE BCmpFrom(_, _, _)
BCmpFrom(a, b, i) ==
  IF i = 0 THEN 0
  ELSE IF a[i] < b[i] THEN -1
  ELSE IF a[i] > b[i] THEN 1
  ELSE BCmpFrom(a, b, i - 1)

BCmp(a, b) ==
  IF Len(a) < Len(b) THEN -1
  ELSE IF Len(a) > Len(b) THEN 1
  ELSE BCmpFrom(a, b, Len(a))

\* a + b from the digit i on, t the sum of the two digits and the carry
RECURSIVE BAddFrom(_, _, _, _)
BAddDigit(a, b, i, t) == << t % Base >> \o BAddFrom(a, b, i + 1, t \div Base)

BAddFrom(a, b, i, carry) ==
  IF i > Len(a) /\ i > Len(b) THEN (IF carry = 0 THEN << >> ELSE << carry >>)
  ELSE BAddDigit(a, b, i, Limb(a, i) + Limb(b, i) + carry)

BAdd(a, b) == BAddFrom(a, b, 1, 0)

\* a - b for a >= b from the digit i on, t the difference of the two
\* digits less the borrow
RECURSIVE BSubFrom(_, _, _, _)
BSubDigit(a, b, i, t) ==
  IF t < 0 THEN << t + Base >> \o BSubFrom(a, b, i + 1, 1)
  ELSE << t >> \o BSubFrom(a, b, i + 1, 0)

BSubFrom(a, b, i, borrow) ==
  IF i > Len(a) THEN << >> ELSE BSubDigit(a, b, i, a[i] - Limb(b, i) - borrow)

BSub(a, b) == BTrim(BSubFrom(a, b, 1, 0))

\* a * k for 0 <= k <= Base from the digit i on, t the product of the
\* digit plus the carry
RECURSIVE BMulSmallFrom(_, _, _, _)
BMulSmallDigit(a, k, i, t) ==
  << t % Base >> \o BMulSmallFrom(a, k, i + 1, t \div Base)

BMulSmallFrom(a, k, i, carry) ==
  IF i > Len(a) THEN (IF carry = 0 THEN << >> ELSE << carry >>)
  ELSE BMulSmallDigit(a, k, i, a[i] * k + carry)

BMulSmall(a, k) == IF k = 0 THEN << >> ELSE BMulSmallFrom(a, k, 1, 0)

\* a * Base^j
BShiftLimbs(a, j) == IF Len(a) = 0 THEN a ELSE [ i \in 1..j |-> 0 ] \o a

RECURSIVE BMulFrom(_, _, _)
BMulFrom(a, b, i) ==
  IF i > Len(b) THEN << >>
  ELSE BAdd(BShiftLimbs(BMulSmall(a, b[i]), i - 1), BMulFrom(a, b, i + 1))

BMul(a, b) == BMulFrom(a, b, 1)

\* a divided by k, 0 < k <= Base, from the digit i down, cur the digit
\* with the remainder above it: the digits of the quotient, the most
\* significant first, and then the remainder
RECURSIVE BDivSmallFrom(_, _, _, _)
BDivSmallDigit(a, k, i, cur) ==
  << cur \div k >> \o BDivSmallFrom(a, k, i - 1, cur % k)

BDivSmallFrom(a, k, i, rem) ==
  IF i = 0 THEN << rem >> ELSE BDivSmallDigit(a, k, i, rem * Base + a[i])

\* the quotient and the remainder in what a division gave
Quotient(d) == BTrim(Reverse(SubSeq(d, 1, Len(d) - 1)))
Remainder(d) == d[Len(d)]

\* a divided by k, 0 < k <= Base: [q, r]
BDivSmallResult(d) == [ q |-> Quotient(d), r |-> Remainder(d) ]

BDivSmall(a, k) == BDivSmallResult(BDivSmallFrom(a, k, Len(a), 0))

\* a * 2^k and the whole part of a / 2^k
BShl(a, k) == BShiftLimbs(BMulSmall(a, Pow2(k % 15)), k \div 15)

BShr(a, k) ==
  IF k \div 15 >= Len(a) THEN << >>
  ELSE BDivSmall(SubSeq(a, (k \div 15) + 1, Len(a)), Pow2(k % 15)).q

RECURSIVE BitLenSmall(_)
BitLenSmall(x) == IF x = 0 THEN 0 ELSE 1 + BitLenSmall(x \div 2)

\* the number of binary digits of a
BBitLen(a) == IF Len(a) = 0 THEN 0 ELSE 15 * (Len(a) - 1) + BitLenSmall(a[Len(a)])

BOdd(a) == Len(a) > 0 /\ a[1] % 2 = 1

RECURSIVE TrailingZerosSmall(_)
TrailingZerosSmall(x) == IF x % 2 = 1 THEN 0 ELSE 1 + TrailingZerosSmall(x \div 2)

\* the number of zeros at the low end of the binary digits of a, a > 0
RECURSIVE BTrailingZerosFrom(_, _)
BTrailingZerosFrom(a, i) ==
  IF a[i] = 0 THEN 15 + BTrailingZerosFrom(a, i + 1) ELSE TrailingZerosSmall(a[i])

BTrailingZeros(a) == BTrailingZerosFrom(a, 1)

\* the digit of a quotient: the largest q with b * q <= cur, found from
\* the estimate that the two top digits of cur and the top digit of b give
RECURSIVE QDigitFrom(_, _, _)
QDigitFrom(cur, b, qhat) ==
  IF BCmp(BMulSmall(b, qhat), cur) > 0 THEN QDigitFrom(cur, b, qhat - 1) ELSE qhat

QDigit(cur, b) ==
  QDigitFrom(cur, b,
             Min(Base - 1,
                 (Limb(cur, Len(b) + 1) * Base + Limb(cur, Len(b))) \div b[Len(b)]))

\* long division of a by b, the top digit of b at least Base / 2, from
\* the digit i of a down with r what is left of the digits above it: the
\* digits of the quotient, the most significant first, and then the
\* remainder
RECURSIVE BDivModFrom(_, _, _, _)
BDivModDigit(a, b, i, cur, qd) ==
  << qd >> \o BDivModFrom(a, b, i - 1, BSub(cur, BMulSmall(b, qd)))

BDivModStep(a, b, i, cur) == BDivModDigit(a, b, i, cur, QDigit(cur, b))

BDivModFrom(a, b, i, r) ==
  IF i = 0 THEN << r >> ELSE BDivModStep(a, b, i, BTrim(<< a[i] >> \o r))

\* a divided by b, both shifted by s binary digits to bring the top
\* digit of b to Base / 2 or more; the top digits of a that are fewer
\* than the digits of b give no digit of the quotient
BDivModResult(d, s) == [ q |-> Quotient(d), r |-> BShr(Remainder(d), s) ]

BDivModShifted(an, bn, s) ==
  BDivModResult(BDivModFrom(an, bn, Len(an) - Len(bn) + 1,
                            SubSeq(an, Len(an) - Len(bn) + 2, Len(an))), s)

BDivModBy(a, b, s) == BDivModShifted(BShl(a, s), BShl(b, s), s)

BDivModSmall(d) == [ q |-> d.q, r |-> BFromInt(d.r) ]

\* a divided by b, b > 0: [q, r]
BDivMod(a, b) ==
  IF Len(b) = 1 THEN BDivModSmall(BDivSmall(a, b[1]))
  ELSE IF Len(a) < Len(b) THEN [ q |-> << >>, r |-> a ]
  ELSE BDivModBy(a, b, 15 - BitLenSmall(b[Len(b)]))

\* 10^k
RECURSIVE BPow10(_)
Square(a) == BMul(a, a)

BPow10(k) ==
  IF k = 0 THEN << 1 >>
  ELSE IF k % 2 = 1 THEN BMulSmall(BPow10(k - 1), 10)
  ELSE Square(BPow10(k \div 2))

(***************************************************************************)
(* Python values                                                           *)
(***************************************************************************)
\* A value is None, an int n, a str s, or a float.  A float is an IEEE 754
\* double: the number m * 2^e, negated when neg, with m odd (or m zero and
\* e = 0); infinity has m zero and e = 1, and nan has m zero and e = 2.
PyNone     == [ ty |-> "NoneType", n |-> 0, s |-> << >> ]
PyInt(i)   == [ ty |-> "int",   n |-> i, s |-> << >> ]
PyStr(x)   == [ ty |-> "str",   n |-> 0, s |-> x ]

Float(neg, m, e) == [ ty |-> "float", neg |-> neg, m |-> m, e |-> e ]

FZero(neg) == Float(neg, << >>, 0)
FInf(neg)  == Float(neg, << >>, 1)
FNaN       == Float(FALSE, << >>, 2)

IsZero(x) == x.m = << >> /\ x.e = 0
IsInf(x)  == x.m = << >> /\ x.e = 1
IsNaN(x)  == x.m = << >> /\ x.e = 2

\* the double m * 2^e for any m that has at most 53 binary digits and
\* e >= -1074; beyond the largest double it is infinity
Canonical(neg, m, e) ==
  IF m = << >> THEN FZero(neg)
  ELSE IF BBitLen(m) + e > 1024 THEN FInf(neg)
  ELSE Float(neg, BShr(m, BTrailingZeros(m)), e + BTrailingZeros(m))

\* hi * 2^e or the double above it: c is -1, 0 or 1 as what was cut off
\* below hi is less than, equal to or more than half a unit of hi, and
\* sticky tells that there was more below that; a tie goes to the even one
RoundUp(neg, sticky, e, hi, c) ==
  Canonical(neg,
            IF c > 0 \/ (c = 0 /\ (sticky \/ BOdd(hi))) THEN BAdd(hi, << 1 >>) ELSE hi,
            e)

\* q * 2^e rounded at its binary digit t
RoundAt(neg, q, sticky, e, t) ==
  IF t <= 0 THEN Canonical(neg, q, e)
  ELSE RoundUp(neg, sticky, e + t, BShr(q, t),
               BCmp(BSub(q, BShl(BShr(q, t), t)), BShl(<< 1 >>, t - 1)))

\* the double nearest to (q + f) * 2^e, 0 <= f < 1 and sticky telling
\* whether f > 0, a tie going to the even one; with sticky, q has more
\* than 54 binary digits
RoundBits(neg, q, sticky, e) ==
  RoundAt(neg, q, sticky, e, Max(BBitLen(q) - 53, -1074 - e))

\* the double nearest to (dm.q + dm.r / d) * 2^e
RoundQuotient(neg, dm, e) == RoundBits(neg, dm.q, dm.r # << >>, e)

\* the double nearest to (n / d) * 2^e, the quotient taken with k more
\* binary digits
RoundRatioAt(neg, n, d, e, k) ==
  RoundQuotient(neg, BDivMod(BShl(n, Max(k, 0)), BShl(d, Max(0 - k, 0))), e - k)

\* the double nearest to (n / d) * 2^e, d > 0
RoundRatio(neg, n, d, e) ==
  IF n = << >> THEN FZero(neg)
  ELSE RoundRatioAt(neg, n, d, e, 55 - (BBitLen(n) - BBitLen(d)))

\* float(i) of an int
FFromInt(i) == Canonical(i < 0, BFromInt(Abs(i)), 0)

\* the float of t tenths
PyFloat(t) == RoundRatio(t < 0, BFromInt(Abs(t)), << 10 >>, 0)

IsNumber(v) == v.ty \in { "int", "float" }

\* the float an operand of mixed arithmetic is converted to
ToFloat(v) == IF v.ty = "float" THEN v ELSE FFromInt(v.n)

FNeg(x) == IF IsNaN(x) THEN x ELSE [ x EXCEPT !.neg = ~ x.neg ]

\* a * 2^e negated when xneg plus b * 2^e negated when yneg, a and b not
\* zero, c being -1, 0 or 1 as a < b, a = b or a > b
FAddDigits(xneg, yneg, a, b, e, c) ==
  IF xneg # yneg /\ c = 0 THEN FZero(FALSE)
  ELSE RoundBits(IF xneg = yneg \/ c > 0 THEN xneg ELSE yneg,
                 IF xneg = yneg THEN BAdd(a, b)
                 ELSE IF c > 0 THEN BSub(a, b) ELSE BSub(b, a),
                 FALSE, e)

FAddAligned(xneg, yneg, a, b, e) == FAddDigits(xneg, yneg, a, b, e, BCmp(a, b))

FAddAt(x, y, e) ==
  FAddAligned(x.neg, y.neg, BShl(x.m, x.e - e), BShl(y.m, y.e - e), e)

\* x + y on floats
FAdd(x, y) ==
  IF IsNaN(x) \/ IsNaN(y) THEN FNaN
  ELSE IF IsInf(x) THEN (IF IsInf(y) /\ x.neg # y.neg THEN FNaN ELSE x)
  ELSE IF IsInf(y) THEN y
  ELSE IF IsZero(x) /\ IsZero(y) THEN FZero(x.neg /\ y.neg)
  ELSE IF IsZero(x) THEN y
  ELSE IF IsZero(y) THEN x
  ELSE FAddAt(x, y, Min(x.e, y.e))

\* x * y on floats
FMul(x, y) ==
  IF IsNaN(x) \/ IsNaN(y) THEN FNaN
  ELSE IF (IsInf(x) /\ IsZero(y)) \/ (IsZero(x) /\ IsInf(y)) THEN FNaN
  ELSE IF IsInf(x) \/ IsInf(y) THEN FInf(x.neg # y.neg)
  ELSE IF IsZero(x) \/ IsZero(y) THEN FZero(x.neg # y.neg)
  ELSE RoundBits(x.neg # y.neg, BMul(x.m, y.m), FALSE, x.e + y.e)

\* x / y on floats, y not zero
FDiv(x, y) ==
  IF IsNaN(x) \/ IsNaN(y) THEN FNaN
  ELSE IF IsInf(x) THEN (IF IsInf(y) THEN FNaN ELSE FInf(x.neg # y.neg))
  ELSE IF IsInf(y) \/ IsZero(x) THEN FZero(x.neg # y.neg)
  ELSE RoundRatio(x.neg # y.neg, x.m, y.m, x.e - y.e)

\* the sizes of two floats that are no nan: -1, 0 or 1
FMagCmp(x, y) ==
  IF IsInf(x) \/ IsInf(y)
    THEN (IF IsInf(x) /\ IsInf(y) THEN 0 ELSE IF IsInf(x) THEN 1 ELSE -1)
  ELSE IF IsZero(x) \/ IsZero(y)
    THEN (IF IsZero(x) /\ IsZero(y) THEN 0 ELSE IF IsZero(x) THEN -1 ELSE 1)
  ELSE IF BBitLen(x.m) + x.e # BBitLen(y.m) + y.e
    THEN (IF BBitLen(x.m) + x.e < BBitLen(y.m) + y.e THEN -1 ELSE 1)
  ELSE BCmp(BShl(x.m, x.e - Min(x.e, y.e)), BShl(y.m, y.e - Min(x.e, y.e)))

FSign(x) == IF IsZero(x) THEN 0 ELSE IF x.neg THEN -1 ELSE 1

\* two floats that are no nan compared: -1, 0 or 1
FCmp(x, y) ==
  IF FSign(x) # FSign(y) THEN (IF FSign(x) < FSign(y) THEN -1 ELSE 1)
  ELSE IF FSign(x) = 0 THEN 0
  ELSE IF FSign(x) > 0 THEN FMagCmp(x, y)
  ELSE FMagCmp(y, x)

\* two floats compared, FALSE when one is nan
FloatCmp(x, y, results) == ~ IsNaN(x) /\ ~ IsNaN(y) /\ FCmp(x, y) \in results

\* two numbers compared
NumCmp(v, w, results) ==
  IF v.ty = "int" /\ w.ty = "int"
    THEN (IF v.n < w.n THEN -1 ELSE IF v.n = w.n THEN 0 ELSE 1) \in results
  ELSE FloatCmp(ToFloat(v), ToFloat(w), results)

\* Python's v == w
PyEq(v, w) ==
  IF IsNumber(v) /\ IsNumber(w) THEN NumCmp(v, w, { 0 })
  ELSE IF v.ty = "str" /\ w.ty = "str" THEN v.s = w.s
  ELSE v.ty = "NoneType" /\ w.ty = "NoneType"

\* Python's v < w is defined for two numbers and for two strings only
Orderable(v, w) ==
  \/ IsNumber(v) /\ IsNumber(w)
  \/ v.ty = "str" /\ w.ty = "str"

PyLess(v, w) ==
  IF IsNumber(v) THEN NumCmp(v, w, { -1 }) ELSE StrLess(v.s, w.s)

\* Python's v <= w
PyLessEq(v, w) ==
  IF IsNumber(v) THEN NumCmp(v, w, { -1, 0 }) ELSE ~ StrLess(w.s, v.s)

\* s * i on a str: i copies of s
RECURSIVE Repeat(_, _)
Repeat(s, i) == IF i <= 0 THEN << >> ELSE s \o Repeat(s, i - 1)

\* Python's v + w, v - w, v * w and v / w: [exc, val]
PyAdd(v, w) ==
  IF v.ty = "int" /\ w.ty = "int" THEN [ exc |-> "", val |-> PyInt(v.n + w.n) ]
  ELSE IF IsNumber(v) /\ IsNumber(w)
    THEN [ exc |-> "", val |-> FAdd(ToFloat(v), ToFloat(w)) ]
  ELSE IF v.ty = "str" /\ w.ty = "str"
    THEN [ exc |-> "", val |-> PyStr(v.s \o w.s) ]
  ELSE [ exc |-> "TypeError", val |-> PyNone ]

PySub(v, w) ==
  IF v.ty = "int" /\ w.ty = "int" THEN [ exc |-> "", val |-> PyInt(v.n - w.n) ]
  ELSE IF IsNumber(v) /\ IsNumber(w)
    THEN [ exc |-> "", val |-> FAdd(ToFloat(v), FNeg(ToFloat(w))) ]
  ELSE [ exc |-> "TypeError", val |-> PyNone ]

PyMul(v, w) ==
  IF v.ty = "int" /\ w.ty = "int" THEN [ exc |-> "", val |-> PyInt(v.n * w.n) ]
  ELSE IF IsNumber(v) /\ IsNumber(w)
    THEN [ exc |-> "", val |-> FMul(ToFloat(v), ToFloat(w)) ]
  ELSE IF v.ty = "str" /\ w.ty = "int"
    THEN [ exc |-> "", val |-> PyStr(Repeat(v.s, w.n)) ]
  ELSE IF v.ty = "int" /\ w.ty = "str"
    THEN [ exc |-> "", val |-> PyStr(Repeat(w.s, v.n)) ]
  ELSE [ exc |-> "TypeError", val |-> PyNone ]

PyDiv(v, w) ==
  IF IsNumber(v) /\ IsNumber(w) THEN
    IF IsZero(ToFloat(w)) THEN [ exc |-> "ZeroDivisionError", val |-> PyNone ]
    ELSE [ exc |-> "", val |-> FDiv(ToFloat(v), ToFloat(w)) ]
  ELSE [ exc |-> "TypeError", val |-> PyNone ]

\* Python's bool(v)
Truthy(v) ==
  IF v.ty = "NoneType" THEN FALSE
  ELSE IF v.ty = "int" THEN v.n # 0
  ELSE IF v.ty = "float" THEN ~ IsZero(v)
  ELSE Len(v.s) > 0

(***************************************************************************)
(* AST nodes, as the parser builds them                                    *)
(***************************************************************************)
None == [ type |-> "None" ]

Identifier(x) == [ type |-> "IDENTIFIER", name |-> x ]

Literal(vt, v) == [ type |-> "LITERAL", value_type |-> vt, value |-> v ]

Binary(t, l, op, r) == [ type |-> t, left |-> l, operator |-> op, right |-> r ]

\* a str object held where the parser would put an IDENTIFIER node
StrName(x) == [ type |-> "str", name |-> x ]

\* node.data['name']: [exc, obj], KeyError when the node has no such
\* entry.  The entry of a COLUMN_DEF node is the IDENTIFIER node that
\* Parser.column_definition puts there; the entry of any other node is a
\* str.
data_name(node) ==
  IF "name" \notin DOMAIN node THEN [ exc |-> "KeyError", obj |-> None ]
  ELSE IF node.type = "COLUMN_DEF" THEN [ exc |-> "", obj |-> node.name ]
  ELSE [ exc |-> "", obj |-> StrName(node.name) ]

(***************************************************************************)
(* Table                                                                   *)
(***************************************************************************)
ColumnDef(name, data_type) == [ name |-> name, type |-> data_type ]

\* Table.__init__; a title of None is the empty text here (both are falsy)
Table(name, columns, title) ==
  [ name |-> name,
    title |-> IF Len(title) > 0 THEN title ELSE name,
    columns |-> columns,
    rows |-> << >> ]

validate_type(value, expected_type) ==
  IF value.ty = "NoneType" THEN TRUE
  ELSE IF expected_type = "INT" THEN value.ty = "int"
  ELSE IF expected_type = "FLOAT" THEN value.ty \in { "int", "float" }
  ELSE IF expected_type = "TEXT" THEN value.ty = "str"
  ELSE IF expected_type = "DATE" THEN value.ty = "str"
  ELSE FALSE

\* add_row refusing only the rows that are too long
add_row_long_only(table, values) ==
  IF Len(values) > Len(table.columns)
    THEN [ ok |-> FALSE, rows |-> table.rows ]
  ELSE IF \E i \in 1..Len(values) :
            ~ validate_type(values[i], table.columns[i].type)
    THEN [ ok |-> FALSE, rows |-> table.rows ]
  ELSE [ ok |-> TRUE, rows |-> Append(table.rows, values) ]

\* add_row without the check of the types
add_row_any_type(table, values) ==
  IF Len(values) # Len(table.columns)
    THEN [ ok |-> FALSE, rows |-> table.rows ]
  ELSE [ ok |-> TRUE, rows |-> Append(table.rows, values) ]

\* add_row storing the row before it checks it
add_row_stored_first(table, values) ==
  IF Len(values) # Len(table.columns)
    THEN [ ok |-> FALSE, rows |-> Append(table.rows, values) ]
  ELSE IF \E i \in 1..Len(values) :
            ~ validate_type(values[i], table.columns[i].type)
    THEN [ ok |-> FALSE, rows |-> Append(table.rows, values) ]
  ELSE [ ok |-> TRUE, rows |-> Append(table.rows, values) ]

\* Table.add_row: [ok, rows]
add_row(table, values) ==
  IF Len(values) # Len(table.columns)
    THEN [ ok |-> FALSE, rows |-> table.rows ]
  ELSE IF \E i \in 1..Len(values) :
            ~ validate_type(values[i], table.columns[i].type)
    THEN [ ok |-> FALSE, rows |-> table.rows ]
  ELSE [ ok |-> TRUE, rows |-> Append(table.rows, values) ]

\* Table.get_column_index from column i on: [exc, idx], idx counted from 0.
\* col.name.lower() raises AttributeError when col.name is not a str, and
\* column_name.lower() when column_name is not.
RECURSIVE get_column_index_from(_, _, _)
get_column_index_from(columns, column_name, i) ==
  IF i > Len(columns) THEN [ exc |-> "", idx |-> -1 ]
  ELSE IF columns[i].name.type # "str" \/ column_name.type # "str"
    THEN [ exc |-> "AttributeError", idx |-> -1 ]
  ELSE IF Lower(columns[i].name.name) = Lower(column_name.name)
    THEN [ exc |-> "", idx |-> i - 1 ]
  ELSE get_column_index_from(columns, column_name, i + 1)

get_column_index(table, column_name) ==
  get_column_index_from(table.columns, column_name, 1)

(***************************************************************************)
(* Database: expression and condition evaluation                           *)
(***************************************************************************)
Value(v) == [ exc |-> "", val |-> v ]
Raise(e) == [ exc |-> e, val |-> PyNone ]

\* Database._evaluate_expression: [exc, val].  table is None, and row the
\* empty row, when the caller passes no row context.
RECURSIVE evaluate_expression(_, _, _)
evaluate_expression(expr, table, row) ==
  IF expr.type = "IDENTIFIER" THEN
    IF table # None /\ Len(row) > 0 THEN
      With(get_column_index(table, StrName(expr.name)), LAMBDA col_idx :
        IF col_idx.exc # "" THEN Raise(col_idx.exc)
        ELSE IF col_idx.idx # -1 THEN
          IF col_idx.idx + 1 <= Len(row) THEN Value(row[col_idx.idx + 1])
          ELSE Raise("IndexError")
        ELSE Value(PyStr(expr.name)))
    ELSE Value(PyStr(expr.name))
  ELSE IF expr.type = "LITERAL" THEN Value(expr.value)
  ELSE IF expr.type = "EXPRESSION" THEN
    With(evaluate_expression(expr.left, table, row), LAMBDA left_value :
      IF left_value.exc # "" THEN left_value
      ELSE IF expr.operator = "DOT" THEN
        \* left_value + "." is computed before the right operand
        IF left_value.val.ty # "str" THEN Raise("TypeError")
        ELSE
          With(evaluate_expression(expr.right, table, row), LAMBDA right_value :
            IF right_value.exc # "" THEN right_value
            ELSE IF right_value.val.ty # "str" THEN Raise("TypeError")
            ELSE Value(PyStr(left_value.val.s \o << "." >> \o right_value.val.s)))
      ELSE
        With(evaluate_expression(expr.right, table, row), LAMBDA right_value :
          IF right_value.exc # "" THEN right_value
          ELSE IF expr.operator = "PLUS"
            THEN PyAdd(left_value.val, right_value.val)
          ELSE IF expr.operator = "MINUS"
            THEN PySub(left_value.val, right_value.val)
          ELSE IF expr.operator = "ASTERISK"
            THEN PyMul(left_value.val, right_value.val)
          ELSE IF expr.operator = "DIVIDE"
            THEN PyDiv(left_value.val, right_value.val)
          ELSE Value(PyNone)))       \* "Unsupported operator"
  ELSE Value(PyNone)               \* "Unsupported expression type"

Comparisons ==
  { "EQUALS", "NOT_EQUALS", "GREATER", "LESS", "GREATER_EQUALS", "LESS_EQUALS" }

\* the comparison of two evaluated operands: [exc, val]
compare(op, left_value, right_value) ==
  IF op = "EQUALS" THEN Value(PyEq(left_value, right_value))
  ELSE IF op = "NOT_EQUALS" THEN Value(~ PyEq(left_value, right_value))
  ELSE IF op \in Comparisons THEN
    IF ~ Orderable(left_value, right_value) THEN Raise("TypeError")
    ELSE IF op = "GREATER" THEN Value(PyLess(right_value, left_value))
    ELSE IF op = "LESS" THEN Value(PyLess(left_value, right_value))
    ELSE IF op = "GREATER_EQUALS" THEN Value(PyLessEq(right_value, left_value))
    ELSE Value(PyLessEq(left_value, right_value))
  ELSE Value(FALSE)                \* "Unsupported operator"

\* Database._evaluate_condition: [exc, val], val a boolean
RECURSIVE evaluate_condition(_, _, _)
evaluate_condition(condition, table, row) ==
  IF condition.type = "CONDITION" /\ condition.operator \in { "AND", "OR" } THEN
    With(evaluate_condition(condition.left, table, row), LAMBDA l :
      IF l.exc # "" THEN l
      ELSE IF condition.operator = "AND" /\ ~ l.val THEN l
      ELSE IF condition.operator = "OR" /\ l.val THEN l
      ELSE evaluate_condition(condition.right, table, row))
  ELSE IF condition.type = "CONDITION" /\ condition.operator = "NOT" THEN
    With(evaluate_condition(condition.right, table, row), LAMBDA r :
      IF r.exc # "" THEN r ELSE [ exc |-> "", val |-> ~ r.val ])
  ELSE IF condition.type = "CONDITION" THEN
    With(evaluate_expression(condition.left, table, row), LAMBDA left_value :
      IF left_value.exc # "" THEN [ exc |-> left_value.exc, val |-> FALSE ]
      ELSE
        With(evaluate_expression(condition.right, table, row), LAMBDA right_value :
          IF right_value.exc # "" THEN [ exc |-> right_value.exc, val |-> FALSE ]
          ELSE With(compare(condition.operator, left_value.val, right_value.val), LAMBDA c :
                 IF c.exc # "" THEN [ exc |-> c.exc, val |-> FALSE ] ELSE c)))
  ELSE
    With(evaluate_expression(condition, table, row), LAMBDA v :
      IF v.exc # "" THEN [ exc |-> v.exc, val |-> FALSE ]
      ELSE [ exc |-> "", val |-> Truthy(v.val) ])

(***************************************************************************)
(* Database: the catalog                                                   *)
(***************************************************************************)
\* the dict self.tables with tables[key] = table
Put(tbls, key, table) ==
  [ k \in DOMAIN tbls \cup { key } |-> IF k = key THEN table ELSE tbls[k] ]

\* del self.tables[key]
Del(tbls, key) == [ k \in DOMAIN tbls \ { key } |-> tbls[k] ]

\* create_table looking for the name as given, not lower-cased
create_table_as_given(tbls, name, columns, title) ==
  IF name \in DOMAIN tbls THEN [ ok |-> FALSE, tables |-> tbls ]
  ELSE [ ok |-> TRUE,
         tables |-> Put(tbls, Lower(name), Table(name, columns, title)) ]

\* Database.create_table: [ok, tables]
create_table(tbls, name, columns, title) ==
  IF Lower(name) \in DOMAIN tbls THEN [ ok |-> FALSE, tables |-> tbls ]
  ELSE [ ok |-> TRUE,
         tables |-> Put(tbls, Lower(name), Table(name, columns, title)) ]

\* drop_table looking for the name as given, not lower-cased
drop_table_as_given(tbls, name) ==
  IF name \notin DOMAIN tbls THEN [ ok |-> FALSE, tables |-> tbls ]
  ELSE [ ok |-> TRUE, tables |-> Del(tbls, name) ]

\* Database.drop_table: [ok, tables]
drop_table(tbls, name) ==
  IF Lower(name) \notin DOMAIN tbls THEN [ ok |-> FALSE, tables |-> tbls ]
  ELSE [ ok |-> TRUE, tables |-> Del(tbls, Lower(name)) ]

\* Database.get_table: the table, or None
get_table(tbls, name) ==
  IF Lower(name) \in DOMAIN tbls THEN tbls[Lower(name)] ELSE None

\* table_name = node.data['name'] and the name.lower() of the catalog
\* method that receives it: [exc, name]
name_of_table(node) ==
  With(data_name(node), LAMBDA name :
    IF name.exc # "" THEN [ exc |-> name.exc, name |-> << >> ]
    ELSE IF name.obj.type # "str" THEN [ exc |-> "AttributeError", name |-> << >> ]
    ELSE [ exc |-> "", name |-> name.obj.name ])

(***************************************************************************)
(* Database: the statement executor.  Every statement yields               *)
(*   ret      "True", "False", or "raised" when an exception leaves it     *)
(*   exc      the exception raised                                         *)
(*   tables   the catalog it leaves                                        *)
(*   count    the row count it prints                                      *)
(*   columns, rows   the header and the rows a SELECT prints               *)
(***************************************************************************)
Returned(b, tbls, n) ==
  [ ret |-> IF b THEN "True" ELSE "False", exc |-> "", tables |-> tbls,
    count |-> n, columns |-> << >>, rows |-> << >> ]

Raised(e, tbls) ==
  [ ret |-> "raised", exc |-> e, tables |-> tbls,
    count |-> 0, columns |-> << >>, rows |-> << >> ]

\* table.get_column_index(node.data['name']): [exc, idx]
column_index(table, node) ==
  IF data_name(node).exc # "" THEN [ exc |-> data_name(node).exc, idx |-> -1 ]
  ELSE get_column_index(table, data_name(node).obj)

\* the loop "for col_node in columns: col_idx = get_column_index(name)":
\* [exc, found, idxs]; found is FALSE when a name gave -1
RECURSIVE resolve_columns(_, _, _, _)
resolve_columns(table, col_nodes, i, idxs) ==
  IF i > Len(col_nodes) THEN [ exc |-> "", found |-> TRUE, idxs |-> idxs ]
  ELSE
    With(column_index(table, col_nodes[i]), LAMBDA col_idx :
      IF col_idx.exc # "" THEN [ exc |-> col_idx.exc, found |-> FALSE, idxs |-> idxs ]
      ELSE IF col_idx.idx = -1 THEN [ exc |-> "", found |-> FALSE, idxs |-> idxs ]
      ELSE resolve_columns(table, col_nodes, i + 1, Append(idxs, col_idx.idx)))

\* the rows of the table for which the WHERE clause holds, as a sequence
\* of booleans, up to the first row whose evaluation raises: [exc, hits]
RECURSIVE filter_rows(_, _, _, _)
filter_rows(where_clause, table, i, hits) ==
  IF i > Len(table.rows) THEN [ exc |-> "", hits |-> hits ]
  ELSE IF where_clause = None
    THEN filter_rows(where_clause, table, i + 1, Append(hits, TRUE))
  ELSE
    With(evaluate_condition(where_clause, table, table.rows[i]), LAMBDA c :
      IF c.exc # "" THEN [ exc |-> c.exc, hits |-> hits ]
      ELSE filter_rows(where_clause, table, i + 1, Append(hits, c.val)))

\* the subsequence of rows whose flag equals keep
RECURSIVE select_rows(_, _, _)
select_rows(rows, hits, keep) ==
  IF Len(rows) = 0 THEN << >>
  ELSE IF Head(hits) = keep
    THEN << Head(rows) >> \o select_rows(Tail(rows), Tail(hits), keep)
  ELSE select_rows(Tail(rows), Tail(hits), keep)

Count(hits) == Cardinality({ i \in 1..Len(hits) : hits[i] })

\* Table.print_table: [exc, columns, rows], the header and the lines
print_table(table, rows, columns) ==
  With(IF Len(columns) = 0
                THEN [ i \in 1..Len(table.columns) |-> i - 1 ] ELSE columns, LAMBDA cols :
                  IF \E i \in 1..Len(cols) : table.columns[cols[i] + 1].name.type # "str"
       THEN [ exc |-> "TypeError", columns |-> << >>, rows |-> << >> ]
     ELSE [ exc |-> "",
            columns |-> [ i \in 1..Len(cols) |-> table.columns[cols[i] + 1].name.name ],
            rows |-> [ r \in 1..Len(rows) |->
                         [ i \in 1..Len(cols) |-> rows[r][cols[i] + 1] ] ] ])

\* the table node of a SELECT taken from the end of the FROM list
last_table_node(ast) == ast.tables[Len(ast.tables)]

\* table_node = ast.data['tables'][0]
table_node(ast) == ast.tables[1]

\* Database._execute_select
execute_select(tbls, ast) ==
  IF Len(ast.tables) = 0 THEN Returned(FALSE, tbls, 0)
  ELSE
    IF name_of_table(table_node(ast)).exc # ""
      THEN Raised(name_of_table(table_node(ast)).exc, tbls)
    ELSE
    With(get_table(tbls, table_node(ast).name), LAMBDA table :
    IF table = None THEN Returned(FALSE, tbls, 0)
    ELSE IF Len(ast.columns) = 0 THEN Raised("IndexError", tbls)
    ELSE IF data_name(ast.columns[1]).exc # ""
      THEN Raised(data_name(ast.columns[1]).exc, tbls)
    ELSE
      With(IF data_name(ast.columns[1]).obj = StrName(<< "*" >>)
                   THEN [ exc |-> "", found |-> TRUE,
                          idxs |-> [ i \in 1..Len(table.columns) |-> i - 1 ] ]
                 ELSE resolve_columns(table, ast.columns, 1, << >>), LAMBDA sel :
      IF sel.exc # "" THEN Raised(sel.exc, tbls)
      ELSE IF ~ sel.found THEN Returned(FALSE, tbls, 0)
      ELSE
        With(filter_rows(ast.where_clause, table, 1, << >>), LAMBDA f :
        IF f.exc # "" THEN Raised(f.exc, tbls)
        ELSE
          With(select_rows(table.rows, f.hits, TRUE), LAMBDA filtered_rows :
          With(print_table(table, filtered_rows, sel.idxs), LAMBDA p :
            IF p.exc # "" THEN Raised(p.exc, tbls)
             ELSE [ ret |-> "True", exc |-> "", tables |-> tbls,
                    count |-> Len(filtered_rows),
                    columns |-> p.columns, rows |-> p.rows ])))))

\* the loop "for i, col_idx in enumerate(column_indices)" of a named
\* INSERT, from position i on: [exc, values]
RECURSIVE place_values(_, _, _, _)

\* place_values leaving out the last of the values
place_values_but_last(column_indices, exprs, i, values) ==
  IF i > Len(column_indices) THEN [ exc |-> "", values |-> values ]
  ELSE IF i < Len(exprs) THEN
    With(evaluate_expression(exprs[i], None, << >>), LAMBDA v :
      IF v.exc # "" THEN [ exc |-> v.exc, values |-> values ]
      ELSE place_values(column_indices, exprs, i + 1,
                        [ values EXCEPT ![column_indices[i] + 1] = v.val ]))
  ELSE place_values(column_indices, exprs, i + 1, values)

place_values(column_indices, exprs, i, values) ==
  IF i > Len(column_indices) THEN [ exc |-> "", values |-> values ]
  ELSE IF i <= Len(exprs) THEN
    With(evaluate_expression(exprs[i], None, << >>), LAMBDA v :
      IF v.exc # "" THEN [ exc |-> v.exc, values |-> values ]
      ELSE place_values(column_indices, exprs, i + 1,
                        [ values EXCEPT ![column_indices[i] + 1] = v.val ]))
  ELSE place_values(column_indices, exprs, i + 1, values)

\* [self._evaluate_expression(expr) for expr in exprs]: [exc, values]
RECURSIVE evaluate_all(_, _, _)
evaluate_all(exprs, i, values) ==
  IF i > Len(exprs) THEN [ exc |-> "", values |-> values ]
  ELSE
    With(evaluate_expression(exprs[i], None, << >>), LAMBDA v :
      IF v.exc # "" THEN [ exc |-> v.exc, values |-> values ]
      ELSE evaluate_all(exprs, i + 1, Append(values, v.val)))

\* Database._execute_insert
execute_insert(tbls, ast) ==
  IF name_of_table(ast.table).exc # "" THEN Raised(name_of_table(ast.table).exc, tbls)
  ELSE
  With(get_table(tbls, ast.table.name), LAMBDA table :
  IF table = None THEN Returned(FALSE, tbls, 0)
  ELSE
    With(Lower(ast.table.name), LAMBDA key :
    With(Len(ast.columns) > 0, LAMBDA named :
    With(IF named THEN resolve_columns(table, ast.columns, 1, << >>)
               ELSE [ exc |-> "", found |-> TRUE, idxs |-> << >> ], LAMBDA sel :
    IF sel.exc # "" THEN Raised(sel.exc, tbls)
    ELSE IF ~ sel.found THEN Returned(FALSE, tbls, 0)
    ELSE
      With(IF named
                  THEN place_values(sel.idxs, ast.values, 1,
                                    [ i \in 1..Len(table.columns) |-> PyNone ])
                ELSE evaluate_all(ast.values, 1, << >>), LAMBDA vs :
      IF vs.exc # "" THEN Raised(vs.exc, tbls)
      ELSE
        With(add_row(table, vs.values), LAMBDA a :
          Returned(a.ok, [ tbls EXCEPT ![key].rows = a.rows ],
                   IF a.ok THEN 1 ELSE 0)))))))

\* the loop over ast.data['set_clauses']: [exc, found, set_clauses], each
\* resolved clause a pair << col_idx, value >>
RECURSIVE resolve_set_clauses(_, _, _, _)

\* the loop going on to the next clause when a name gave -1
resolve_set_clauses_skipping(table, set_nodes, i, set_clauses) ==
  IF i > Len(set_nodes)
    THEN [ exc |-> "", found |-> TRUE, set_clauses |-> set_clauses ]
  ELSE
    With(column_index(table, set_nodes[i].left), LAMBDA col_idx :
      IF col_idx.exc # ""
        THEN [ exc |-> col_idx.exc, found |-> FALSE, set_clauses |-> set_clauses ]
      ELSE IF col_idx.idx = -1
        THEN resolve_set_clauses(table, set_nodes, i + 1, set_clauses)
      ELSE
        With(evaluate_expression(set_nodes[i].right, None, << >>), LAMBDA value :
          IF value.exc # ""
            THEN [ exc |-> value.exc, found |-> FALSE, set_clauses |-> set_clauses ]
          ELSE resolve_set_clauses(table, set_nodes, i + 1,
                                   Append(set_clauses, << col_idx.idx, value.val >>))))

resolve_set_clauses(table, set_nodes, i, set_clauses) ==
  IF i > Len(set_nodes)
    THEN [ exc |-> "", found |-> TRUE, set_clauses |-> set_clauses ]
  ELSE
    With(column_index(table, set_nodes[i].left), LAMBDA col_idx :
      IF col_idx.exc # ""
        THEN [ exc |-> col_idx.exc, found |-> FALSE, set_clauses |-> set_clauses ]
      ELSE IF col_idx.idx = -1
        THEN [ exc |-> "", found |-> FALSE, set_clauses |-> set_clauses ]
      ELSE
        With(evaluate_expression(set_nodes[i].right, None, << >>), LAMBDA value :
          IF value.exc # ""
            THEN [ exc |-> value.exc, found |-> FALSE, set_clauses |-> set_clauses ]
          ELSE resolve_set_clauses(table, set_nodes, i + 1,
                                   Append(set_clauses, << col_idx.idx, value.val >>))))

\* "for col_idx, value in set_clauses: row[col_idx] = value"
RECURSIVE apply_set_clauses(_, _)

\* the loop over set_clauses left after its first assignment
apply_set_clauses_first(row, set_clauses) ==
  IF Len(set_clauses) = 0 THEN row
  ELSE [ row EXCEPT ![Head(set_clauses)[1] + 1] = Head(set_clauses)[2] ]

apply_set_clauses(row, set_clauses) ==
  IF Len(set_clauses) = 0 THEN row
  ELSE apply_set_clauses([ row EXCEPT ![Head(set_clauses)[1] + 1] = Head(set_clauses)[2] ],
                         Tail(set_clauses))

\* the loop "for row in table.rows" of UPDATE, from row i on; rows are
\* changed in place, so the rows visited before an exception stay changed:
\* [exc, rows, rows_updated]
RECURSIVE update_rows(_, _, _, _, _, _)
update_rows(where_clause, table, set_clauses, rows, i, rows_updated) ==
  IF i > Len(rows) THEN [ exc |-> "", rows |-> rows, rows_updated |-> rows_updated ]
  ELSE
    With(IF where_clause = None THEN [ exc |-> "", val |-> TRUE ]
             ELSE evaluate_condition(where_clause, table, rows[i]), LAMBDA c :
    IF c.exc # "" THEN [ exc |-> c.exc, rows |-> rows, rows_updated |-> rows_updated ]
    ELSE IF c.val
      THEN update_rows(where_clause, table, set_clauses,
                       [ rows EXCEPT ![i] = apply_set_clauses(rows[i], set_clauses) ],
                       i + 1, rows_updated + 1)
    ELSE update_rows(where_clause, table, set_clauses, rows, i + 1, rows_updated))

\* Database._execute_update
execute_update(tbls, ast) ==
  IF name_of_table(ast.table).exc # "" THEN Raised(name_of_table(ast.table).exc, tbls)
  ELSE
  With(get_table(tbls, ast.table.name), LAMBDA table :
  IF table = None THEN Returned(FALSE, tbls, 0)
  ELSE
    With(Lower(ast.table.name), LAMBDA key :
    With(resolve_set_clauses(table, ast.set_clauses, 1, << >>), LAMBDA sc :
    IF sc.exc # "" THEN Raised(sc.exc, tbls)
    ELSE IF ~ sc.found THEN Returned(FALSE, tbls, 0)
    ELSE
      With(update_rows(ast.where_clause, table, sc.set_clauses, table.rows, 1, 0), LAMBDA u :
      With([ tbls EXCEPT ![key].rows = u.rows ], LAMBDA after :
        IF u.exc # "" THEN Raised(u.exc, after)
         ELSE Returned(TRUE, after, u.rows_updated))))))

\* Database._execute_delete
execute_delete(tbls, ast) ==
  IF name_of_table(ast.table).exc # "" THEN Raised(name_of_table(ast.table).exc, tbls)
  ELSE
  With(get_table(tbls, ast.table.name), LAMBDA table :
  IF table = None THEN Returned(FALSE, tbls, 0)
  ELSE
    With(Lower(ast.table.name), LAMBDA key :
    With(filter_rows(ast.where_clause, table, 1, << >>), LAMBDA f :
    IF f.exc # "" THEN Raised(f.exc, tbls)
    ELSE
      With(select_rows(table.rows, f.hits, FALSE), LAMBDA rows_to_keep :
        Returned(TRUE, [ tbls EXCEPT ![key].rows = rows_to_keep ], Count(f.hits))))))

\* Database._execute_create: ColumnDef.name receives col_node.data['name'],
\* which Parser.column_definition set to an IDENTIFIER node
execute_create(tbls, ast) ==
  IF data_name(ast.table).exc # "" THEN Raised("KeyError", tbls)
  ELSE IF \E i \in 1..Len(ast.columns) :
            data_name(ast.columns[i]).exc # "" \/ "data_type" \notin DOMAIN ast.columns[i]
    THEN Raised("KeyError", tbls)
  ELSE IF name_of_table(ast.table).exc # "" THEN Raised(name_of_table(ast.table).exc, tbls)
  ELSE
  With([ i \in 1..Len(ast.columns) |->
           ColumnDef(data_name(ast.columns[i]).obj, ast.columns[i].data_type) ],
       LAMBDA columns :
  \* title = ast.data.get('title'): None, here the empty text, when the
  \* node has no such entry, as every node the parser builds
  With(IF "title" \in DOMAIN ast THEN ast.title ELSE << >>, LAMBDA title :
  With(create_table(tbls, ast.table.name, columns, title), LAMBDA c :
    Returned(c.ok, c.tables, 0))))

\* Database._execute_drop
execute_drop(tbls, ast) ==
  IF name_of_table(ast.table).exc # "" THEN Raised(name_of_table(ast.table).exc, tbls)
  ELSE
  With(drop_table(tbls, ast.table.name), LAMBDA d : Returned(d.ok, d.tables, 0))

\* Database.execute_query
execute_query(tbls, ast) ==
  IF ast.type = "SELECT_STMT" THEN execute_select(tbls, ast)
  ELSE IF ast.type = "INSERT_STMT" THEN execute_insert(tbls, ast)
  ELSE IF ast.type = "UPDATE_STMT" THEN execute_update(tbls, ast)
  ELSE IF ast.type = "DELETE_STMT" THEN execute_delete(tbls, ast)
  ELSE IF ast.type = "CREATE_STMT" THEN execute_create(tbls, ast)
  ELSE IF ast.type = "DROP_STMT" THEN execute_drop(tbls, ast)
  ELSE Returned(FALSE, tbls, 0)

(***************************************************************************)
(* Lexer.  A lexer is [input, position, line, column]; position counts     *)
(* from 0 as in the source.  A token is [type, lexeme, line, column].      *)
(***************************************************************************)
Lexer(input_text) ==
  [ input |-> input_text, position |-> 0, line |-> 1, column |-> 1 ]

Token(type, lexeme, line, column) ==
  [ type |-> type, lexeme |-> lexeme, line |-> line, column |-> column ]

keywords ==
  { "SELECT", "FROM", "WHERE", "INSERT", "INTO", "VALUES", "UPDATE", "SET",
    "DELETE", "CREATE", "TABLE", "DROP", "JOIN", "ON", "AND", "OR", "NOT",
    "NULL", "INT", "TEXT", "FLOAT", "DATE" }

\* the spelling of a keyword token type, as the keys of self.keywords
Spelling(k) ==
  CASE k = "SELECT" -> << "s", "e", "l", "e", "c", "t" >>
    [] k = "FROM"   -> << "f", "r", "o", "m" >>
    [] k = "WHERE"  -> << "w", "h", "e", "r", "e" >>
    [] k = "INSERT" -> << "i", "n", "s", "e", "r", "t" >>
    [] k = "INTO"   -> << "i", "n", "t", "o" >>
    [] k = "VALUES" -> << "v", "a", "l", "u", "e", "s" >>
    [] k = "UPDATE" -> << "u", "p", "d", "a", "t", "e" >>
    [] k = "SET"    -> << "s", "e", "t" >>
    [] k = "DELETE" -> << "d", "e", "l", "e", "t", "e" >>
    [] k = "CREATE" -> << "c", "r", "e", "a", "t", "e" >>
    [] k = "TABLE"  -> << "t", "a", "b", "l", "e" >>
    [] k = "DROP"   -> << "d", "r", "o", "p" >>
    [] k = "JOIN"   -> << "j", "o", "i", "n" >>
    [] k = "ON"     -> << "o", "n" >>
    [] k = "AND"    -> << "a", "n", "d" >>
    [] k = "OR"     -> << "o", "r" >>
    [] k = "NOT"    -> << "n", "o", "t" >>
    [] k = "NULL"   -> << "n", "u", "l", "l" >>
    [] k = "INT"    -> << "i", "n", "t" >>
    [] k = "TEXT"   -> << "t", "e", "x", "t" >>
    [] k = "FLOAT"  -> << "f", "l", "o", "a", "t" >>
    [] k = "DATE"   -> << "d", "a", "t", "e" >>

\* self.keywords.get(lexeme.lower(), TokenType.IDENTIFIER)
keyword_type(lexeme) ==
  IF \E k \in keywords : Spelling(k) = Lower(lexeme)
    THEN CHOOSE k \in keywords : Spelling(k) = Lower(lexeme)
  ELSE "IDENTIFIER"

\* str.isspace(), str.isdigit(), str.isalpha() and str.isalnum() on one
\* character; the superscript two is a digit to isdigit, the fraction one
\* half is numeric and so alphanumeric, and neither is a letter
isspace(c) ==
  c \in { " ", "\t", "\n", VT, "\f", "\r", FS, GS, RS, US, " " }
isdigit(c) == IndexIn(Digits, c) # 0 \/ c = "²"
isalpha(c) ==
  \/ IndexIn(Uppercase, c) # 0 \/ IndexIn(Lowercase, c) # 0
  \/ IndexIn(UppercaseBeyond, c) # 0 \/ IndexIn(LowercaseBeyond, c) # 0
isalnum(c) == isalpha(c) \/ isdigit(c) \/ c = "½"

peek(lx) ==
  IF lx.position >= Len(lx.input) THEN Nul ELSE lx.input[lx.position + 1]

\* Lexer.advance: the lexer after it; the character consumed is peek(lx)
advance(lx) ==
  IF peek(lx) = "\n"
    THEN [ lx EXCEPT !.position = @ + 1, !.line = @ + 1, !.column = 1 ]
  ELSE [ lx EXCEPT !.position = @ + 1, !.column = @ + 1 ]

RECURSIVE skip_whitespace(_)
skip_whitespace(lx) ==
  IF isspace(peek(lx)) THEN skip_whitespace(advance(lx)) ELSE lx

\* the loop of skip_comment
RECURSIVE skip_to_end_of_line(_)
skip_to_end_of_line(lx) ==
  IF peek(lx) # "\n" /\ peek(lx) # Nul THEN skip_to_end_of_line(advance(lx)) ELSE lx

skip_comment(lx) ==
  IF peek(lx) = "#" THEN skip_to_end_of_line(lx) ELSE lx

\* a scanning method yields the token and the lexer after it
Scanned(tok, lx) == [ token |-> tok, lexer |-> lx ]

\* the loop of Lexer.identifier: [lexeme, lexer]
RECURSIVE identifier_loop(_, _)
identifier_loop(lx, lexeme) ==
  IF isalnum(peek(lx)) \/ peek(lx) = "_"
    THEN identifier_loop(advance(lx), Append(lexeme, peek(lx)))
  ELSE [ lexeme |-> lexeme, lexer |-> lx ]

identifier(lx) ==
  With(lx.column, LAMBDA start_column :
  With(identifier_loop(lx, << >>), LAMBDA r :
    Scanned(Token(keyword_type(r.lexeme), r.lexeme, r.lexer.line, start_column), r.lexer)))

\* the loop of Lexer.number: [lexeme, is_float, lexer]
RECURSIVE number_loop(_, _, _)
number_loop(lx, lexeme, is_float) ==
  IF isdigit(peek(lx)) \/ peek(lx) = "." THEN
    IF peek(lx) = "." /\ is_float
      THEN [ lexeme |-> lexeme, is_float |-> is_float, lexer |-> lx ]
    ELSE number_loop(advance(lx), Append(lexeme, peek(lx)),
                     is_float \/ peek(lx) = ".")
  ELSE [ lexeme |-> lexeme, is_float |-> is_float, lexer |-> lx ]

number(lx) ==
  With(lx.column, LAMBDA start_column :
  With(number_loop(lx, << >>, FALSE), LAMBDA r :
    Scanned(Token(IF r.is_float THEN "FLOAT_LITERAL" ELSE "INTEGER",
                   r.lexeme, r.lexer.line, start_column), r.lexer)))

\* the loop of Lexer.string: [lexeme, lexer]
RECURSIVE string_loop(_, _, _)
string_loop(lx, quote, lexeme) ==
  IF peek(lx) # quote /\ peek(lx) # Nul
    THEN string_loop(advance(lx), quote, Append(lexeme, peek(lx)))
  ELSE [ lexeme |-> lexeme, lexer |-> lx ]

\* Lexer.string consuming a closing quote where the input has ended
string_past_end(lx) ==
  With(lx.column, LAMBDA start_column :
  With(peek(lx), LAMBDA quote :
  With(string_loop(advance(lx), quote, << >>), LAMBDA r :
     With(advance(r.lexer), LAMBDA l2 :
       Scanned(Token("STRING", r.lexeme, l2.line, start_column), l2)))))

string(lx) ==
  With(lx.column, LAMBDA start_column :
  With(peek(lx), LAMBDA quote :
  With(string_loop(advance(lx), quote, << >>), LAMBDA r : IF peek(r.lexer) = Nul
       THEN Scanned(Token("ERROR", r.lexeme, r.lexer.line, start_column), r.lexer)
     ELSE With(advance(r.lexer), LAMBDA l2 :
       Scanned(Token("STRING", r.lexeme, l2.line, start_column), l2)))))

\* a one-character token
single(lx, type) ==
  With(advance(lx), LAMBDA l1 :
    Scanned(Token(type, << peek(lx) >>, l1.line, l1.column - 1), l1))

\* a one-character token that a following "=" extends
double(lx, type, type_equals) ==
  With(advance(lx), LAMBDA l1 :
    IF peek(l1) = "="
      THEN With(advance(l1), LAMBDA l2 :
        Scanned(Token(type_equals, << peek(lx), "=" >>, l2.line, l2.column - 2), l2))
    ELSE Scanned(Token(type, << peek(lx) >>, l1.line, l1.column - 1), l1))

\* "return Token(TokenType.EOF, "", self.line, self.column)" moving the
\* cursor on
end_of_input_moving(lx) ==
  Scanned(Token("EOF", << >>, lx.line, lx.column), advance(lx))

\* "return Token(TokenType.EOF, "", self.line, self.column)"
end_of_input(lx) ==
  Scanned(Token("EOF", << >>, lx.line, lx.column), lx)

\* Lexer.get_next_token: [token, lexer]
get_next_token(lexer) ==
  With(skip_comment(skip_whitespace(lexer)), LAMBDA lx :
  With(peek(lx), LAMBDA char :
  IF lx.position >= Len(lx.input) THEN end_of_input(lx)
  ELSE IF isalpha(char) \/ char = "_" THEN identifier(lx)
  ELSE IF isdigit(char) THEN number(lx)
  ELSE IF char = "'" \/ char = "\"" THEN string(lx)
  ELSE IF char = "=" THEN single(lx, "EQUALS")
  ELSE IF char = ">" THEN double(lx, "GREATER", "GREATER_EQUALS")
  ELSE IF char = "<" THEN double(lx, "LESS", "LESS_EQUALS")
  ELSE IF char = "!" THEN double(lx, "ERROR", "NOT_EQUALS")
  ELSE IF char = "+" THEN single(lx, "PLUS")
  ELSE IF char = "-" THEN single(lx, "MINUS")
  ELSE IF char = "*" THEN single(lx, "ASTERISK")
  ELSE IF char = "/" THEN single(lx, "DIVIDE")
  ELSE IF char = "," THEN single(lx, "COMMA")
  ELSE IF char = ";" THEN single(lx, "SEMICOLON")
  ELSE IF char = "(" THEN single(lx, "LEFT_PAREN")
  ELSE IF char = ")" THEN single(lx, "RIGHT_PAREN")
  ELSE IF char = "." THEN single(lx, "DOT")
  ELSE single(lx, "ERROR")))

\* SQLGenerator.tokenize: the tokens before EOF
RECURSIVE tokenize_loop(_, _)
tokenize_loop(lx, tokens) ==
  With(get_next_token(lx), LAMBDA r :
    IF r.token.type = "EOF" THEN tokens
    ELSE tokenize_loop(r.lexer, Append(tokens, r.token)))

tokenize(query) == tokenize_loop(Lexer(query), << >>)

(***************************************************************************)
(* Parser.  The parser reads its lexer one token at a time, and what the   *)
(* lexer returns does not depend on the parser: a parser is held as        *)
(* [current_token, tokens], tokens being what self.lexer.get_next_token()  *)
(* returns from here on, in order, up to the first EOF (which it then      *)
(* returns again at every call).  A parsing method yields                  *)
(* [exc, node, parser]: exc is "SyntaxError" when it raises, node the AST  *)
(* (or the list of ASTs) it returns, parser the parser after it.           *)
(***************************************************************************)
\* the tokens lexer.get_next_token() returns, call after call, up to EOF
RECURSIVE token_stream(_)
token_stream(lexer) ==
  With(get_next_token(lexer), LAMBDA r :
    IF r.token.type = "EOF" THEN << r.token >>
    ELSE << r.token >> \o token_stream(r.lexer))

\* Parser.__init__
Parser(lexer) ==
  With(token_stream(lexer), LAMBDA ts :
    [ current_token |-> Head(ts), tokens |-> Tail(ts) ])

\* self.current_token = self.lexer.get_next_token()
next_token(p) ==
  IF Len(p.tokens) = 0 THEN p
  ELSE [ current_token |-> Head(p.tokens), tokens |-> Tail(p.tokens) ]

Ok(node, p) == [ exc |-> "", node |-> node, parser |-> p ]
Fail(p)     == [ exc |-> "SyntaxError", node |-> None, parser |-> p ]

\* Parser.consume; the token consumed is p.current_token
consume(p, expected_type) ==
  IF p.current_token.type = expected_type
    THEN Ok(p.current_token, next_token(p))
  ELSE Fail(p)

\* consume(t1); consume(t2); ... in a row
RECURSIVE consume_all(_, _)
consume_all(p, expected_types) ==
  IF Len(expected_types) = 0 THEN Ok(None, p)
  ELSE With(consume(p, Head(expected_types)), LAMBDA c :
         IF c.exc # "" THEN c ELSE consume_all(c.parser, Tail(expected_types)))

\* int(lexeme) of a run of decimal digits
RECURSIVE int(_)
int(lexeme) ==
  IF Len(lexeme) = 0 THEN 0
  ELSE 10 * int(SubSeq(lexeme, 1, Len(lexeme) - 1)) + (IndexIn(Digits, lexeme[Len(lexeme)]) - 1)

\* the number that a run of decimal digits writes
RECURSIVE BFromDigits(_)
BFromDigits(ds) ==
  IF Len(ds) = 0 THEN << >>
  ELSE BAdd(BMulSmall(BFromDigits(SubSeq(ds, 1, Len(ds) - 1)), 10),
            BFromInt(IndexIn(Digits, ds[Len(ds)]) - 1))

\* float(lexeme) of decimal digits with one "." among them: the double
\* nearest to the number written
float_at(lexeme, dot) ==
  RoundRatio(FALSE,
             BFromDigits(SubSeq(lexeme, 1, dot - 1) \o SubSeq(lexeme, dot + 1, Len(lexeme))),
             BPow10(Len(lexeme) - dot), 0)

float(lexeme) == float_at(lexeme, CHOOSE i \in 1..Len(lexeme) : lexeme[i] = ".")

\* int() and float() take the decimal digits only; the lexer's isdigit
\* lets others into the lexeme, and they raise ValueError
decimal(lexeme) ==
  \A i \in 1..Len(lexeme) : lexeme[i] = "." \/ IndexIn(Digits, lexeme[i]) # 0

\* Parser.literal
literal(p) ==
  With(p.current_token, LAMBDA t :
    IF t.type = "INTEGER" THEN
      IF ~ decimal(t.lexeme) THEN [ Fail(p) EXCEPT !.exc = "ValueError" ]
      ELSE Ok(Literal("INTEGER", PyInt(int(t.lexeme))), consume(p, "INTEGER").parser)
    ELSE IF t.type = "FLOAT_LITERAL" THEN
      IF ~ decimal(t.lexeme) THEN [ Fail(p) EXCEPT !.exc = "ValueError" ]
      ELSE Ok(Literal("FLOAT_LITERAL", float(t.lexeme)),
              consume(p, "FLOAT_LITERAL").parser)
    ELSE IF t.type = "STRING"
      THEN Ok(Literal("STRING", PyStr(t.lexeme)), consume(p, "STRING").parser)
    ELSE IF t.type = "NULL"
      THEN Ok(Literal("NULL", PyNone), consume(p, "NULL").parser)
    ELSE Fail(p))

\* Parser.expression
RECURSIVE expression(_)
expression(p) ==
  With(p.current_token, LAMBDA t :
  IF t.type = "IDENTIFIER" THEN
    With(Identifier(t.lexeme), LAMBDA node :
    With(consume(p, "IDENTIFIER").parser, LAMBDA p1 :
      IF p1.current_token.type = "DOT" THEN
         With(consume(p1, "DOT").parser, LAMBDA p2 :
           IF p2.current_token.type = "IDENTIFIER"
             THEN Ok(Binary("EXPRESSION", node, "DOT", Identifier(p2.current_token.lexeme)),
                     consume(p2, "IDENTIFIER").parser)
           ELSE Fail(p2))
       ELSE Ok(node, p1)))
  ELSE IF t.type \in { "INTEGER", "FLOAT_LITERAL", "STRING", "NULL" } THEN literal(p)
  ELSE IF t.type = "LEFT_PAREN" THEN
    With(expression(consume(p, "LEFT_PAREN").parser), LAMBDA e :
      IF e.exc # "" THEN e
      ELSE With(consume(e.parser, "RIGHT_PAREN"), LAMBDA c :
             IF c.exc # "" THEN c ELSE Ok(e.node, c.parser)))
  ELSE Fail(p))

\* Parser.condition, and its loop "while current_token is AND or OR"
RECURSIVE condition(_)
RECURSIVE condition_loop(_, _)

\* the loop reading an expression, not a condition, after AND or OR
condition_loop_expression(p, node) ==
  IF p.current_token.type \in { "AND", "OR" } THEN
    With(p.current_token.type, LAMBDA operator_type :
    With(expression(consume(p, operator_type).parser), LAMBDA right :
      IF right.exc # "" THEN right
       ELSE condition_loop(right.parser,
                           Binary("CONDITION", node, operator_type, right.node))))
  ELSE Ok(node, p)

condition_loop(p, node) ==
  IF p.current_token.type \in { "AND", "OR" } THEN
    With(p.current_token.type, LAMBDA operator_type :
    With(condition(consume(p, operator_type).parser), LAMBDA right :
      IF right.exc # "" THEN right
       ELSE condition_loop(right.parser,
                           Binary("CONDITION", node, operator_type, right.node))))
  ELSE Ok(node, p)

condition(p) ==
  With(expression(p), LAMBDA e :
    IF e.exc # "" THEN e
    ELSE IF e.parser.current_token.type \in Comparisons THEN
      With(e.parser.current_token.type, LAMBDA operator_type :
      With(expression(consume(e.parser, operator_type).parser), LAMBDA right :
        IF right.exc # "" THEN right
         ELSE condition_loop(right.parser,
                             Binary("CONDITION", e.node, operator_type, right.node))))
    ELSE condition_loop(e.parser, e.node))

\* item (',' item)* with the items already read in nodes; kind names the
\* method that reads one item
RECURSIVE list_loop(_, _, _)

\* Parser.table_reference
table_reference(p) ==
  IF p.current_token.type = "IDENTIFIER"
    THEN Ok([ type |-> "TABLE_REF", name |-> p.current_token.lexeme ],
            consume(p, "IDENTIFIER").parser)
  ELSE Fail(p)

\* Parser.column_definition
column_definition(p) ==
  IF p.current_token.type = "IDENTIFIER" THEN
    With(Identifier(p.current_token.lexeme), LAMBDA name_node :
    With(consume(p, "IDENTIFIER").parser, LAMBDA p1 :
      IF p1.current_token.type \in { "INT", "TEXT", "FLOAT", "DATE" }
         THEN Ok([ type |-> "COLUMN_DEF", name |-> name_node,
                   data_type |-> p1.current_token.type ],
                 consume(p1, p1.current_token.type).parser)
       ELSE Fail(p1)))
  ELSE Fail(p)

\* "IDENTIFIER '=' expression", one SET clause of Parser.update_statement
set_clause(p) ==
  IF p.current_token.type = "IDENTIFIER" THEN
    With(Identifier(p.current_token.lexeme), LAMBDA column_node :
    With(consume(consume(p, "IDENTIFIER").parser, "EQUALS"), LAMBDA c :
      IF c.exc # "" THEN c
       ELSE With(expression(c.parser), LAMBDA e :
              IF e.exc # "" THEN e
              ELSE Ok(Binary("EXPRESSION", column_node, "EQUALS", e.node), e.parser))))
  ELSE Fail(p)

item(kind, p) ==
  IF kind = "expression" THEN expression(p)
  ELSE IF kind = "table_reference" THEN table_reference(p)
  ELSE IF kind = "column_definition" THEN column_definition(p)
  ELSE set_clause(p)

list_loop(kind, p, nodes) ==
  IF p.current_token.type = "COMMA" THEN
    With(item(kind, consume(p, "COMMA").parser), LAMBDA e :
      IF e.exc # "" THEN e
      ELSE list_loop(kind, e.parser, Append(nodes, e.node)))
  ELSE Ok(nodes, p)

\* a first item and the loop over ", item"
list_of(kind, p) ==
  With(item(kind, p), LAMBDA e :
    IF e.exc # "" THEN e ELSE list_loop(kind, e.parser, << e.node >>))

\* Parser.column_list
column_list(p) ==
  IF p.current_token.type = "ASTERISK"
    THEN Ok(<< Identifier(<< "*" >>) >>, consume(p, "ASTERISK").parser)
  ELSE list_of("expression", p)

\* Parser.table_list
table_list(p) == list_of("table_reference", p)

\* Parser.join_clause
join_clause(p) ==
  With(consume(p, "JOIN"), LAMBDA c :
  IF c.exc # "" THEN c
  ELSE With(table_reference(c.parser), LAMBDA t :
    IF t.exc # "" THEN t
    ELSE With(consume(t.parser, "ON"), LAMBDA o :
      IF o.exc # "" THEN o
      ELSE With(condition(o.parser), LAMBDA w :
        IF w.exc # "" THEN w
        ELSE Ok([ type |-> "JOIN", table |-> t.node, condition |-> w.node ], w.parser)))))

\* the loop "while current_token is JOIN" of Parser.select_statement
RECURSIVE join_loop(_, _)
join_loop(p, joins) ==
  IF p.current_token.type = "JOIN" THEN
    With(join_clause(p), LAMBDA j :
      IF j.exc # "" THEN j ELSE join_loop(j.parser, Append(joins, j.node)))
  ELSE Ok(joins, p)

\* the optional WHERE clause that ends SELECT, UPDATE and DELETE
optional_where(p) ==
  IF p.current_token.type = "WHERE"
    THEN condition(consume(p, "WHERE").parser)
  ELSE Ok(None, p)

\* the table name that follows the leading keywords of a statement
table_name(p) ==
  IF p.current_token.type = "IDENTIFIER"
    THEN Ok(p.current_token.lexeme, consume(p, "IDENTIFIER").parser)
  ELSE Fail(p)

(***************************************************************************)
(* Statements: the ASTs Parser builds for the six statement kinds          *)
(***************************************************************************)
TableRef(x) == [ type |-> "TABLE_REF", name |-> x ]

ColumnDefNode(x, data_type) ==
  [ type |-> "COLUMN_DEF", name |-> Identifier(x), data_type |-> data_type ]

SelectStmt(columns, tbls, joins, where_clause) ==
  [ type |-> "SELECT_STMT", columns |-> columns, tables |-> tbls,
    joins |-> joins, where_clause |-> where_clause ]

InsertStmt(x, columns, values) ==
  [ type |-> "INSERT_STMT", table |-> Identifier(x), columns |-> columns,
    values |-> values ]

UpdateStmt(x, set_clauses, where_clause) ==
  [ type |-> "UPDATE_STMT", table |-> Identifier(x),
    set_clauses |-> set_clauses, where_clause |-> where_clause ]

DeleteStmt(x, where_clause) ==
  [ type |-> "DELETE_STMT", table |-> Identifier(x), where_clause |-> where_clause ]

CreateStmt(x, columns) ==
  [ type |-> "CREATE_STMT", table |-> Identifier(x), columns |-> columns ]

DropStmt(x) == [ type |-> "DROP_STMT", table |-> Identifier(x) ]

IntLit(i) == Literal("INTEGER", PyInt(i))
FloatLit(t) == Literal("FLOAT_LITERAL", PyFloat(t))
StrLit(x) == Literal("STRING", PyStr(x))
NullLit == Literal("NULL", PyNone)
Id(x)   == Identifier(x)
Cmp(l, op, r) == Binary("CONDITION", l, op, r)
SetClause(x, e) == Binary("EXPRESSION", Identifier(x), "EQUALS", e)

\* Parser.select_statement
select_statement(p) ==
  With(consume(p, "SELECT"), LAMBDA c :
  IF c.exc # "" THEN c
  ELSE With(column_list(c.parser), LAMBDA columns :
    IF columns.exc # "" THEN columns
    ELSE With(consume(columns.parser, "FROM"), LAMBDA f :
      IF f.exc # "" THEN f
      ELSE With(table_list(f.parser), LAMBDA tbls :
        IF tbls.exc # "" THEN tbls
        ELSE With(join_loop(tbls.parser, << >>), LAMBDA joins :
          IF joins.exc # "" THEN joins
          ELSE With(optional_where(joins.parser), LAMBDA w :
            IF w.exc # "" THEN w
            ELSE Ok(SelectStmt(columns.node, tbls.node, joins.node, w.node), w.parser)))))))

\* Parser.insert_statement
insert_statement(p) ==
  With(consume_all(p, << "INSERT", "INTO" >>), LAMBDA c :
  IF c.exc # "" THEN c
  ELSE With(table_name(c.parser), LAMBDA t :
    IF t.exc # "" THEN t
    ELSE
      With(IF t.parser.current_token.type = "LEFT_PAREN" THEN
              With(column_list(consume(t.parser, "LEFT_PAREN").parser), LAMBDA cl :
                IF cl.exc # "" THEN cl
                ELSE With(consume(cl.parser, "RIGHT_PAREN"), LAMBDA r :
                       IF r.exc # "" THEN r ELSE Ok(cl.node, r.parser)))
            ELSE Ok(<< >>, t.parser), LAMBDA columns :
      IF columns.exc # "" THEN columns
      ELSE With(consume_all(columns.parser, << "VALUES", "LEFT_PAREN" >>), LAMBDA v :
        IF v.exc # "" THEN v
        ELSE With(list_of("expression", v.parser), LAMBDA values :
          IF values.exc # "" THEN values
          ELSE With(consume(values.parser, "RIGHT_PAREN"), LAMBDA r :
            IF r.exc # "" THEN r
            ELSE Ok(InsertStmt(t.node, columns.node, values.node), r.parser)))))))

\* Parser.update_statement
update_statement(p) ==
  With(consume(p, "UPDATE"), LAMBDA c :
  IF c.exc # "" THEN c
  ELSE With(table_name(c.parser), LAMBDA t :
    IF t.exc # "" THEN t
    ELSE With(consume(t.parser, "SET"), LAMBDA s :
      IF s.exc # "" THEN s
      ELSE With(list_of("set_clause", s.parser), LAMBDA set_clauses :
        IF set_clauses.exc # "" THEN set_clauses
        ELSE With(optional_where(set_clauses.parser), LAMBDA w :
          IF w.exc # "" THEN w
          ELSE Ok(UpdateStmt(t.node, set_clauses.node, w.node), w.parser))))))

\* Parser.delete_statement
delete_statement(p) ==
  With(consume_all(p, << "DELETE", "FROM" >>), LAMBDA c :
  IF c.exc # "" THEN c
  ELSE With(table_name(c.parser), LAMBDA t :
    IF t.exc # "" THEN t
    ELSE With(optional_where(t.parser), LAMBDA w :
      IF w.exc # "" THEN w
      ELSE Ok(DeleteStmt(t.node, w.node), w.parser))))

\* Parser.create_statement
create_statement(p) ==
  With(consume_all(p, << "CREATE", "TABLE" >>), LAMBDA c :
  IF c.exc # "" THEN c
  ELSE With(table_name(c.parser), LAMBDA t :
    IF t.exc # "" THEN t
    ELSE With(consume(t.parser, "LEFT_PAREN"), LAMBDA l :
      IF l.exc # "" THEN l
      ELSE With(list_of("column_definition", l.parser), LAMBDA columns :
        IF columns.exc # "" THEN columns
        ELSE With(consume(columns.parser, "RIGHT_PAREN"), LAMBDA r :
          IF r.exc # "" THEN r
          ELSE Ok(CreateStmt(t.node, columns.node), r.parser))))))

\* Parser.drop_statement
drop_statement(p) ==
  With(consume_all(p, << "DROP", "TABLE" >>), LAMBDA c :
  IF c.exc # "" THEN c
  ELSE With(table_name(c.parser), LAMBDA t :
    IF t.exc # "" THEN t ELSE Ok(DropStmt(t.node), t.parser)))

\* Parser.sql_statement
sql_statement(p) ==
  With(p.current_token.type, LAMBDA t :
    IF t = "SELECT" THEN select_statement(p)
    ELSE IF t = "INSERT" THEN insert_statement(p)
    ELSE IF t = "UPDATE" THEN update_statement(p)
    ELSE IF t = "DELETE" THEN delete_statement(p)
    ELSE IF t = "CREATE" THEN create_statement(p)
    ELSE IF t = "DROP" THEN drop_statement(p)
    ELSE Fail(p))

\* Parser.parse
parse(p) == sql_statement(p)

(***************************************************************************)
(* SQLGenerator: the text of an AST.  A generating method yields           *)
(* [exc, text]: exc is "ValueError" when it raises.                        *)
(***************************************************************************)
Text(t) == [ exc |-> "", text |-> t ]
Unsupported == [ exc |-> "ValueError", text |-> << >> ]

\* the upper-case spelling of a keyword, as the generator writes it
Keyword(k) == [ i \in 1..Len(Spelling(k)) |-> UpperChar(Spelling(k)[i]) ]

\* SQLGenerator.token_type_to_string
token_type_to_string(token_type) ==
  IF token_type \in keywords THEN Keyword(token_type)
  ELSE IF token_type = "EQUALS" THEN << "=" >>
  ELSE IF token_type = "GREATER" THEN << ">" >>
  ELSE IF token_type = "LESS" THEN << "<" >>
  ELSE IF token_type = "GREATER_EQUALS" THEN << ">", "=" >>
  ELSE IF token_type = "LESS_EQUALS" THEN << "<", "=" >>
  ELSE IF token_type = "NOT_EQUALS" THEN << "!", "=" >>
  ELSE IF token_type = "PLUS" THEN << "+" >>
  ELSE IF token_type = "MINUS" THEN << "-" >>
  ELSE IF token_type = "ASTERISK" THEN << "*" >>
  ELSE IF token_type = "DIVIDE" THEN << "/" >>
  ELSE IF token_type = "COMMA" THEN << "," >>
  ELSE IF token_type = "SEMICOLON" THEN << ";" >>
  ELSE IF token_type = "LEFT_PAREN" THEN << "(" >>
  ELSE IF token_type = "RIGHT_PAREN" THEN << ")" >>
  ELSE IF token_type = "DOT" THEN << "." >>
  \* str(token_type) of the members that are no key of token_strings
  ELSE << "T", "o", "k", "e", "n", "T", "y", "p", "e", "." >> \o
    (IF token_type = "IDENTIFIER" THEN << "I", "D", "E", "N", "T", "I", "F", "I", "E", "R" >>
     ELSE IF token_type = "INTEGER" THEN << "I", "N", "T", "E", "G", "E", "R" >>
     ELSE IF token_type = "FLOAT_LITERAL" THEN << "F", "L", "O", "A", "T", "_", "L", "I", "T", "E", "R", "A", "L" >>
     ELSE IF token_type = "STRING" THEN << "S", "T", "R", "I", "N", "G" >>
     ELSE IF token_type = "EOF" THEN << "E", "O", "F" >>
     ELSE << "E", "R", "R", "O", "R" >>)

\* str(i) of an int
RECURSIVE str_digits(_)
str_digits(i) ==
  IF i < 10 THEN << Digits[i + 1] >>
  ELSE Append(str_digits(i \div 10), Digits[(i % 10) + 1])

str_int(i) == IF i < 0 THEN << "-" >> \o str_digits(0 - i) ELSE str_digits(i)

\* the decimal digits of a, the most significant first
RECURSIVE BToDigits(_)
BToDigitsAnd(d) == Append(BToDigits(d.q), Digits[d.r + 1])

BToDigits(a) == IF a = << >> THEN << >> ELSE BToDigitsAnd(BDivSmall(a, 10))

\* n / d < 10^k
Below10(n, d, k) ==
  IF k >= 0 THEN BCmp(n, BMul(d, BPow10(k))) < 0
  ELSE BCmp(BMul(n, BPow10(0 - k)), d) < 0

\* the k with 10^(k-1) <= n / d < 10^k, looked for from k on
RECURSIVE DecimalPoint(_, _, _)
DecimalPoint(n, d, k) ==
  IF ~ Below10(n, d, k) THEN DecimalPoint(n, d, k + 1)
  ELSE IF Below10(n, d, k - 1) THEN DecimalPoint(n, d, k - 1)
  ELSE k

\* the double nearest to c * 10^j
FromDecimal(c, j) ==
  RoundRatio(FALSE,
             IF j >= 0 THEN BMul(c, BPow10(j)) ELSE c,
             IF j >= 0 THEN << 1 >> ELSE BPow10(0 - j), 0)

\* the first of the numbers cs that float() reads back as x, good being
\* the places of those that do
ReadBack(cs, good) ==
  IF good = { } THEN [ ok |-> FALSE, c |-> << >> ]
  ELSE [ ok |-> TRUE, c |-> cs[IF 1 \in good THEN 1 ELSE 2] ]

\* of the numbers cs, each times 10^j, with 17 digits the first, else the
\* first that float() reads back as x
Tried(x, j, p, cs) ==
  IF p = 17 THEN [ ok |-> TRUE, c |-> cs[1] ]
  ELSE ReadBack(cs, { i \in 1..2 : FromDecimal(cs[i], j) = x })

\* the two whole numbers around q + r / d, the nearer first; a tie goes
\* to the even one
Around(q, half) ==
  IF half > 0 \/ (half = 0 /\ BOdd(q)) THEN << BAdd(q, << 1 >>), q >>
  ELSE << q, BAdd(q, << 1 >> ) >>

CandidateOf(x, j, p, dm, d) ==
  IF dm.r = << >> THEN [ ok |-> TRUE, c |-> dm.q ]
  ELSE Tried(x, j, p, Around(dm.q, BCmp(BShl(dm.r, 1), d)))

CandidateIn(x, j, p, n, d) == CandidateOf(x, j, p, BDivMod(n, d), d)

\* the float x = n / d > 0, its point at k, written with p digits: the
\* nearer of the two numbers of p digits around x when float() reads it
\* back as x, else the other when that one reads back as x; with 17
\* digits the nearer one always does
Candidate(x, n, d, k, p) ==
  CandidateIn(x, k - p, p,
              IF p >= k THEN BMul(n, BPow10(p - k)) ELSE n,
              IF p >= k THEN d ELSE BMul(d, BPow10(k - p)))

\* the candidate of the fewest digits among those of 1 to 17 digits
Fewest(cs, p) == [ c |-> cs[p].c, p |-> p ]

FewestOf(cs) ==
  Fewest(cs, CHOOSE p \in 1..17 :
               cs[p].ok /\ \A fewer \in 1..(p - 1) : ~ cs[fewer].ok)

\* the fewest digits that read back as the float x = n / d > 0 with its
\* point at k: [c, p], the p digits being those of c
Shortest(x, n, d, k) == FewestOf([ p \in 1..17 |-> Candidate(x, n, d, k, p) ])

\* digits without the zeros at their end
RECURSIVE StripZeros(_)
StripZeros(ds) ==
  IF Len(ds) > 1 /\ ds[Len(ds)] = "0" THEN StripZeros(SubSeq(ds, 1, Len(ds) - 1))
  ELSE ds

\* the digits ds with the point after the first decpt of them, as repr
\* writes them: with an exponent below 0.0001 and from 1e16 on
float_repr(ds, decpt) ==
  IF decpt <= -4 \/ decpt > 16 THEN
    << ds[1] >> \o
      (IF Len(ds) > 1 THEN << "." >> \o SubSeq(ds, 2, Len(ds)) ELSE << >>) \o
      << "e", IF decpt - 1 < 0 THEN "-" ELSE "+" >> \o
      (IF Abs(decpt - 1) < 10 THEN << "0" >> ELSE << >>) \o str_digits(Abs(decpt - 1))
  ELSE IF decpt <= 0
    THEN << "0", "." >> \o [ i \in 1..(0 - decpt) |-> "0" ] \o ds
  ELSE IF decpt >= Len(ds)
    THEN ds \o [ i \in 1..(decpt - Len(ds)) |-> "0" ] \o << ".", "0" >>
  ELSE SubSeq(ds, 1, decpt) \o << "." >> \o SubSeq(ds, decpt + 1, Len(ds))

\* the digits ds, the last of them j places from the point
repr_digits(ds, j) == float_repr(StripZeros(ds), Len(ds) + j)

repr_shortest(s, k) == repr_digits(BToDigits(s.c), k - s.p)

repr_at(x, n, d, k) == repr_shortest(Shortest(x, n, d, k), k)

repr_ratio(x, n, d) ==
  repr_at(x, n, d, DecimalPoint(n, d, ((BBitLen(n) - BBitLen(d)) * 30103) \div 100000))

\* repr of the size of the float x: the shortest decimal text that
\* float() reads back as x
repr_float(x) ==
  IF IsNaN(x) THEN << "n", "a", "n" >>
  ELSE IF IsInf(x) THEN << "i", "n", "f" >>
  ELSE IF IsZero(x) THEN << "0", ".", "0" >>
  ELSE repr_ratio(Float(FALSE, x.m, x.e),
                  IF x.e >= 0 THEN BShl(x.m, x.e) ELSE x.m,
                  IF x.e >= 0 THEN << 1 >> ELSE BShl(<< 1 >>, 0 - x.e))

\* str(x) of a float
str_float(v) ==
  (IF v.neg /\ ~ IsNaN(v) THEN << "-" >> ELSE << >>) \o repr_float(v)

\* str(v) of a value
str(v) ==
  IF v.ty = "int" THEN str_int(v.n)
  ELSE IF v.ty = "float" THEN str_float(v)
  ELSE IF v.ty = "str" THEN v.s
  ELSE << "N", "o", "n", "e" >>

\* f"{left} {operator} {right}"
Spaced(left, operator, right) == left \o << " " >> \o operator \o << " " >> \o right

\* SQLGenerator.generate_literal
generate_literal(lit) ==
  IF lit.value_type = "INTEGER" THEN Text(str(lit.value))
  ELSE IF lit.value_type = "FLOAT_LITERAL" THEN Text(str(lit.value))
  ELSE IF lit.value_type = "STRING" THEN Text(<< "'" >> \o str(lit.value) \o << "'" >>)
  ELSE IF lit.value_type = "NULL" THEN Text(Keyword("NULL"))
  ELSE Unsupported

\* SQLGenerator.generate_expression
RECURSIVE generate_expression(_)
generate_expression(expr) ==
  IF expr.type = "IDENTIFIER" THEN Text(expr.name)
  ELSE IF expr.type = "LITERAL" THEN generate_literal(expr)
  ELSE IF expr.type = "EXPRESSION" THEN
    With(generate_expression(expr.left), LAMBDA left :
      IF left.exc # "" THEN left
      ELSE With(generate_expression(expr.right), LAMBDA right :
        IF right.exc # "" THEN right
        ELSE Text(Spaced(left.text, token_type_to_string(expr.operator), right.text))))
  ELSE Unsupported

\* SQLGenerator.generate_condition: both operands of a CONDITION node go
\* through generate_expression
generate_condition(cond) ==
  IF cond.type = "CONDITION" THEN
    With(generate_expression(cond.left), LAMBDA left :
      IF left.exc # "" THEN left
      ELSE With(generate_expression(cond.right), LAMBDA right :
        IF right.exc # "" THEN right
        ELSE Text(Spaced(left.text, token_type_to_string(cond.operator), right.text))))
  ELSE generate_expression(cond)

\* SQLGenerator.generate_table_reference
generate_table_reference(table) == table.name

\* SQLGenerator.generate_column_definition
generate_column_definition(column) ==
  With(generate_expression(column.name), LAMBDA name :
    IF name.exc # "" THEN name
    ELSE Text(name.text \o << " " >> \o token_type_to_string(column.data_type)))

\* one "left = right" of SQLGenerator.generate_update
generate_set_clause(clause) ==
  With(generate_expression(clause.left), LAMBDA left :
    IF left.exc # "" THEN left
    ELSE With(generate_expression(clause.right), LAMBDA right :
      IF right.exc # "" THEN right
      ELSE Text(Spaced(left.text, << "=" >>, right.text))))

generate_item(kind, node) ==
  IF kind = "expression" THEN generate_expression(node)
  ELSE IF kind = "table_reference" THEN Text(generate_table_reference(node))
  ELSE IF kind = "column_definition" THEN generate_column_definition(node)
  ELSE generate_set_clause(node)

\* ", ".join(strs) of the texts of the nodes from the i-th on, text holding
\* the part joined so far
RECURSIVE join_generated(_, _, _, _)
join_generated(kind, nodes, i, text) ==
  IF i > Len(nodes) THEN Text(text)
  ELSE With(generate_item(kind, nodes[i]), LAMBDA g :
    IF g.exc # "" THEN g
    ELSE join_generated(kind, nodes, i + 1,
                        IF i = 1 THEN g.text ELSE text \o << ",", " " >> \o g.text))

\* SQLGenerator.generate_column_list
generate_column_list(columns) ==
  IF Len(columns) = 0 THEN Text(<< "*" >>)
  ELSE join_generated("expression", columns, 1, << >>)

\* SQLGenerator.generate_table_list
generate_table_list(tbls) == join_generated("table_reference", tbls, 1, << >>)

\* SQLGenerator.generate_join
generate_join(join) ==
  With(generate_condition(join.condition), LAMBDA c :
    IF c.exc # "" THEN c
    ELSE Text(Keyword("JOIN") \o << " " >> \o generate_table_reference(join.table)
                \o << " " >> \o Keyword("ON") \o << " " >> \o c.text))

\* the loop "for join in ast.data['joins']: sql += ' ' + generate_join(join)"
RECURSIVE generate_joins(_, _, _)
generate_joins(joins, i, sql) ==
  IF i > Len(joins) THEN Text(sql)
  ELSE With(generate_join(joins[i]), LAMBDA j :
    IF j.exc # "" THEN j ELSE generate_joins(joins, i + 1, sql \o << " " >> \o j.text))

\* "if ast.data['where_clause']: sql += ' WHERE ' + generate_condition(...)"
generate_where(sql, where_clause) ==
  IF where_clause = None THEN Text(sql)
  ELSE With(generate_condition(where_clause), LAMBDA c :
    IF c.exc # "" THEN c
    ELSE Text(sql \o << " " >> \o Keyword("WHERE") \o << " " >> \o c.text))

\* SQLGenerator.generate_select
generate_select(ast) ==
  With(generate_column_list(ast.columns), LAMBDA columns :
    IF columns.exc # "" THEN columns
    ELSE With(generate_table_list(ast.tables), LAMBDA tbls :
      IF tbls.exc # "" THEN tbls
      ELSE With(generate_joins(ast.joins, 1,
                               Keyword("SELECT") \o << " " >> \o columns.text \o << " " >>
                                 \o Keyword("FROM") \o << " " >> \o tbls.text), LAMBDA sql :
        IF sql.exc # "" THEN sql
        ELSE generate_where(sql.text, ast.where_clause))))

\* SQLGenerator.generate_insert
generate_insert(ast) ==
  With(IF Len(ast.columns) > 0 THEN generate_column_list(ast.columns) ELSE Text(<< >>),
       LAMBDA columns :
    IF columns.exc # "" THEN columns
    ELSE With(join_generated("expression", ast.values, 1, << >>), LAMBDA values :
      IF values.exc # "" THEN values
      ELSE Text(Keyword("INSERT") \o << " " >> \o Keyword("INTO") \o << " " >>
                  \o generate_table_reference(ast.table)
                  \o (IF Len(ast.columns) > 0
                        THEN << " ", "(" >> \o columns.text \o << ")" >> ELSE << >>)
                  \o << " " >> \o Keyword("VALUES") \o << " ", "(" >>
                  \o values.text \o << ")" >>)))

\* SQLGenerator.generate_update
generate_update(ast) ==
  With(join_generated("set_clause", ast.set_clauses, 1, << >>), LAMBDA sets :
    IF sets.exc # "" THEN sets
    ELSE generate_where(Keyword("UPDATE") \o << " " >> \o generate_table_reference(ast.table)
                          \o << " " >> \o Keyword("SET") \o << " " >> \o sets.text,
                        ast.where_clause))

\* SQLGenerator.generate_delete
generate_delete(ast) ==
  generate_where(Keyword("DELETE") \o << " " >> \o Keyword("FROM") \o << " " >>
                   \o generate_table_reference(ast.table),
                 ast.where_clause)

\* SQLGenerator.generate_create
generate_create(ast) ==
  With(join_generated("column_definition", ast.columns, 1, << >>), LAMBDA columns :
    IF columns.exc # "" THEN columns
    ELSE Text(Keyword("CREATE") \o << " " >> \o Keyword("TABLE") \o << " " >>
                \o generate_table_reference(ast.table)
                \o << " ", "(" >> \o columns.text \o << ")" >>))

\* SQLGenerator.generate_drop
generate_drop(ast) ==
  Text(Keyword("DROP") \o << " " >> \o Keyword("TABLE") \o << " " >>
         \o generate_table_reference(ast.table))

\* SQLGenerator.generate_sql
generate_sql(ast) ==
  IF ast.type = "SELECT_STMT" THEN generate_select(ast)
  ELSE IF ast.type = "INSERT_STMT" THEN generate_insert(ast)
  ELSE IF ast.type = "UPDATE_STMT" THEN generate_update(ast)
  ELSE IF ast.type = "DELETE_STMT" THEN generate_delete(ast)
  ELSE IF ast.type = "CREATE_STMT" THEN generate_create(ast)
  ELSE IF ast.type = "DROP_STMT" THEN generate_drop(ast)
  ELSE Unsupported

(***************************************************************************)
(* The statements and calls the model runs                                 *)
(***************************************************************************)
MaxRows == 2        \* rows stored in the catalog

TableNames == { << "t" >>, << "T" >>, << "u" >> }

\* t (A INT, b TEXT) and u (f FLOAT, d DATE)
ColumnsOf(x) ==
  IF Lower(x) = << "t" >> THEN << << << "A" >>, "INT" >>, << << "b" >>, "TEXT" >> >>
  ELSE << << << "f" >>, "FLOAT" >>, << << "d" >>, "DATE" >> >>

\* CREATE TABLE t (A INT, b TEXT) and CREATE TABLE T (A INT, b TEXT)
CreateStmts ==
  { CreateStmt(x, [ i \in 1..2 |-> ColumnDefNode(ColumnsOf(x)[i][1], ColumnsOf(x)[i][2]) ])
      : x \in { << "t" >>, << "T" >> } }

DropStmts == { DropStmt(x) : x \in TableNames }

InsertStmts ==
  { InsertStmt(<< "t" >>, << >>, << IntLit(1), StrLit(<< "x" >>) >>),
    InsertStmt(<< "T" >>, << >>, << NullLit, StrLit(<< "x" >>) >>),
    InsertStmt(<< "t" >>, << >>, << StrLit(<< "x" >>), StrLit(<< "x" >>) >>),
    InsertStmt(<< "t" >>, << >>, << IntLit(1) >>),
    InsertStmt(<< "t" >>, << Id(<< "b" >>), Id(<< "a" >>) >>, << StrLit(<< "x" >>), IntLit(1) >>),
    InsertStmt(<< "t" >>, << Id(<< "a" >>), Id(<< "b" >>) >>, << IntLit(1) >>),
    InsertStmt(<< "t" >>, << Id(<< "B" >>) >>, << StrLit(<< "x" >>), IntLit(1) >>),
    InsertStmt(<< "t" >>, << Id(<< "c" >>) >>, << IntLit(1) >>),
    InsertStmt(<< "t" >>, << Id(<< "A" >>) >>, << StrLit(<< "x" >>) >>),
    InsertStmt(<< "U" >>, << >>, << FloatLit(15), StrLit(<< "d" >>) >>),
    InsertStmt(<< "u" >>, << >>, << StrLit(<< "d" >>), StrLit(<< "d" >>) >>) }

\* WHERE conditions: None, comparisons of a column with a literal, a bare
\* expression, a name no table has, and right-nested AND / OR chains
Conds ==
  { None } \cup
  { Cmp(Id(<< "a" >>), op, IntLit(1)) : op \in Comparisons } \cup
  { Cmp(Id(<< "b" >>), op, StrLit(<< "x" >>)) : op \in { "EQUALS", "NOT_EQUALS", "GREATER_EQUALS" } } \cup
  { Cmp(Id(<< "A" >>), op, StrLit(<< "x" >>)) : op \in { "EQUALS", "LESS" } } \cup
  { Cmp(IntLit(1), "EQUALS", IntLit(1)),
    Cmp(Id(<< "a" >>), "EQUALS", NullLit),
    Id(<< "a" >>),
    Cmp(Id(<< "c" >>), "EQUALS", StrLit(<< "c" >>)),
    Cmp(Cmp(Id(<< "a" >>), "EQUALS", IntLit(1)), "AND", Cmp(Id(<< "b" >>), "EQUALS", StrLit(<< "x" >>))),
    Cmp(Cmp(Id(<< "b" >>), "NOT_EQUALS", StrLit(<< "x" >>)), "OR", Cmp(Id(<< "a" >>), "LESS", IntLit(2))) }

DeleteStmts ==
  { DeleteStmt(<< "t" >>, w) : w \in Conds } \cup
  { DeleteStmt(<< "T" >>, None), DeleteStmt(<< "u" >>, None) }

SetLists ==
  { << SetClause(<< "a" >>, NullLit) >>,
    << SetClause(<< "a" >>, StrLit(<< "x" >>)) >>,
    << SetClause(<< "a" >>, IntLit(1)), SetClause(<< "b" >>, StrLit(<< "x" >>)) >> }

\* SET lists run with few conditions: a second column, unknown columns
SetListsFew ==
  { << SetClause(<< "B" >>, NullLit) >>,
    << SetClause(<< "c" >>, IntLit(1)) >>,
    << SetClause(<< "a" >>, IntLit(1)), SetClause(<< "c" >>, IntLit(1)) >> }

UpdateStmts ==
  { UpdateStmt(<< "t" >>, sl, w) : sl \in SetLists, w \in Conds } \cup
  { UpdateStmt(<< "T" >>, sl, w) : sl \in SetListsFew,
        w \in { None, Cmp(Id(<< "a" >>), "EQUALS", IntLit(1)) } } \cup
  { UpdateStmt(<< "u" >>, << SetClause(<< "f" >>, IntLit(1)) >>, None) }

SelectStmts ==
  { SelectStmt(<< Id(<< "*" >>) >>, << TableRef(<< "t" >>) >>, << >>, w) : w \in Conds } \cup
  { SelectStmt(<< Id(<< "b" >>), Id(<< "a" >>) >>, << TableRef(<< "T" >>) >>, << >>, None),
    SelectStmt(<< Id(<< "c" >>) >>, << TableRef(<< "t" >>) >>, << >>, None),
    SelectStmt(<< Id(<< "*" >>) >>, << TableRef(<< "u" >>) >>, << >>, None) }

\* a direct call of Database.create_table / Database.drop_table
Call(f, x) == [ type |-> f, table |-> Identifier(x) ]

RECURSIVE RowsIn(_, _)
RowsIn(tbls, ks) ==
  IF ks = {} THEN 0
  ELSE With(CHOOSE k \in ks : TRUE,
            LAMBDA k : Len(tbls[k].rows) + RowsIn(tbls, ks \ { k }))

TotalRows(tbls) == RowsIn(tbls, DOMAIN tbls)

(***************************************************************************)
(* The batch runner: each SQL text goes through Lexer, Parser and          *)
(* Database.execute_query, and an exception ends that statement only       *)
(***************************************************************************)
\* CREATE TABLE users (id INT, name TEXT, age INT, salary FLOAT);
CreateUsers ==
  << "C", "R", "E", "A", "T", "E", " ", "T", "A", "B", "L", "E", " ", "u",
     "s", "e", "r", "s", " ", "(", "i", "d", " ", "I", "N", "T", ",", " ",
     "n", "a", "m", "e", " ", "T", "E", "X", "T", ",", " ", "a", "g", "e",
     " ", "I", "N", "T", ",", " ", "s", "a", "l", "a", "r", "y", " ", "F",
     "L", "O", "A", "T", ")", ";" >>

\* INSERT INTO users (id, name, age, salary) VALUES (1, 'John', 30, 50000.0);
InsertJohn ==
  << "I", "N", "S", "E", "R", "T", " ", "I", "N", "T", "O", " ", "u", "s",
     "e", "r", "s", " ", "(", "i", "d", ",", " ", "n", "a", "m", "e", ",",
     " ", "a", "g", "e", ",", " ", "s", "a", "l", "a", "r", "y", ")", " ",
     "V", "A", "L", "U", "E", "S", " ", "(", "1", ",", " ", "'", "J", "o",
     "h", "n", "'", ",", " ", "3", "0", ",", " ", "5", "0", "0", "0", "0",
     ".", "0", ")", ";" >>

\* INSERT INTO users (id, name, age, salary) VALUES (2, 'Jane', 25, 60000.0);
InsertJane ==
  << "I", "N", "S", "E", "R", "T", " ", "I", "N", "T", "O", " ", "u", "s",
     "e", "r", "s", " ", "(", "i", "d", ",", " ", "n", "a", "m", "e", ",",
     " ", "a", "g", "e", ",", " ", "s", "a", "l", "a", "r", "y", ")", " ",
     "V", "A", "L", "U", "E", "S", " ", "(", "2", ",", " ", "'", "J", "a",
     "n", "e", "'", ",", " ", "2", "5", ",", " ", "6", "0", "0", "0", "0",
     ".", "0", ")", ";" >>

\* SELECT * FROM users;
SelectAll ==
  << "S", "E", "L", "E", "C", "T", " ", "*", " ", "F", "R", "O", "M", " ",
     "u", "s", "e", "r", "s", ";" >>

\* SELECT name, age FROM users;
SelectNameAge ==
  << "S", "E", "L", "E", "C", "T", " ", "n", "a", "m", "e", ",", " ", "a",
     "g", "e", " ", "F", "R", "O", "M", " ", "u", "s", "e", "r", "s", ";" >>

\* SELECT * FROM users WHERE age > 30;
SelectOver30 ==
  << "S", "E", "L", "E", "C", "T", " ", "*", " ", "F", "R", "O", "M", " ",
     "u", "s", "e", "r", "s", " ", "W", "H", "E", "R", "E", " ", "a", "g",
     "e", " ", ">", " ", "3", "0", ";" >>

\* UPDATE users SET salary = 55000.0 WHERE id = 1;
UpdateSalary ==
  << "U", "P", "D", "A", "T", "E", " ", "u", "s", "e", "r", "s", " ", "S",
     "E", "T", " ", "s", "a", "l", "a", "r", "y", " ", "=", " ", "5", "5",
     "0", "0", "0", ".", "0", " ", "W", "H", "E", "R", "E", " ", "i", "d",
     " ", "=", " ", "1", ";" >>

\* DELETE FROM users WHERE id = 2;
DeleteJane ==
  << "D", "E", "L", "E", "T", "E", " ", "F", "R", "O", "M", " ", "u", "s",
     "e", "r", "s", " ", "W", "H", "E", "R", "E", " ", "i", "d", " ", "=",
     " ", "2", ";" >>

\* DROP TABLE users;
DropUsers ==
  << "D", "R", "O", "P", " ", "T", "A", "B", "L", "E", " ", "u", "s", "e",
     "r", "s", ";" >>

\* CREATE TABLE users (id INT, name TEXT, age INT, salary FLOAT)
ScenarioCreate ==
  << "C", "R", "E", "A", "T", "E", " ", "T", "A", "B", "L", "E", " ", "u",
     "s", "e", "r", "s", " ", "(", "i", "d", " ", "I", "N", "T", ",", " ",
     "n", "a", "m", "e", " ", "T", "E", "X", "T", ",", " ", "a", "g", "e",
     " ", "I", "N", "T", ",", " ", "s", "a", "l", "a", "r", "y", " ", "F",
     "L", "O", "A", "T", ")" >>

\* INSERT INTO users (id, name, age, salary) VALUES (1, 'John', 30, 50000.0)
ScenarioInsert ==
  << "I", "N", "S", "E", "R", "T", " ", "I", "N", "T", "O", " ", "u", "s",
     "e", "r", "s", " ", "(", "i", "d", ",", " ", "n", "a", "m", "e", ",",
     " ", "a", "g", "e", ",", " ", "s", "a", "l", "a", "r", "y", ")", " ",
     "V", "A", "L", "U", "E", "S", " ", "(", "1", ",", " ", "'", "J", "o",
     "h", "n", "'", ",", " ", "3", "0", ",", " ", "5", "0", "0", "0", "0",
     ".", "0", ")" >>

\* SELECT * FROM users WHERE age > 25
ScenarioSelect ==
  << "S", "E", "L", "E", "C", "T", " ", "*", " ", "F", "R", "O", "M", " ",
     "u", "s", "e", "r", "s", " ", "W", "H", "E", "R", "E", " ", "a", "g",
     "e", " ", ">", " ", "2", "5" >>

\* INSERT INTO users (id, name, age, salary) VALUES (3, 'Bob', 40, 70000.0);
InsertBob ==
  << "I", "N", "S", "E", "R", "T", " ", "I", "N", "T", "O", " ", "u", "s",
     "e", "r", "s", " ", "(", "i", "d", ",", " ", "n", "a", "m", "e", ",",
     " ", "a", "g", "e", ",", " ", "s", "a", "l", "a", "r", "y", ")", " ",
     "V", "A", "L", "U", "E", "S", " ", "(", "3", ",", " ", "'", "B", "o",
     "b", "'", ",", " ", "4", "0", ",", " ", "7", "0", "0", "0", "0", ".",
     "0", ")", ";" >>

\* INSERT INTO users (id, name, age, salary) VALUES (4, 'Abhijeet', 40, 70000.0);
InsertAbhijeet ==
  << "I", "N", "S", "E", "R", "T", " ", "I", "N", "T", "O", " ", "u", "s",
     "e", "r", "s", " ", "(", "i", "d", ",", " ", "n", "a", "m", "e", ",",
     " ", "a", "g", "e", ",", " ", "s", "a", "l", "a", "r", "y", ")", " ",
     "V", "A", "L", "U", "E", "S", " ", "(", "4", ",", " ", "'", "A", "b",
     "h", "i", "j", "e", "e", "t", "'", ",", " ", "4", "0", ",", " ", "7",
     "0", "0", "0", "0", ".", "0", ")", ";" >>

\* the list sql_statements of test_sql
sql_statements ==
  << CreateUsers, InsertJohn, InsertJane, InsertBob, InsertAbhijeet,
     SelectAll, SelectNameAge, SelectOver30, UpdateSalary, SelectAll,
     DeleteJane, SelectAll, DropUsers >>

\* the texts a session draws its statements from: those of the list, and
\* the three statements without ";" of the scenario
SessionTexts ==
  { sql_statements[i] : i \in 1..Len(sql_statements) }
    \cup { ScenarioCreate, ScenarioInsert, ScenarioSelect }

\* statements that a WHERE clause may follow
Heads ==
  {
    \* SELECT * FROM t
    << "S", "E", "L", "E", "C", "T", " ", "*", " ", "F", "R", "O", "M", " ",
       "t" >>,
    \* SELECT a, t.b FROM t, u
    << "S", "E", "L", "E", "C", "T", " ", "a", ",", " ", "t", ".", "b", " ",
       "F", "R", "O", "M", " ", "t", ",", " ", "u" >>,
    \* SELECT * FROM t JOIN u ON t.a = u.a
    << "S", "E", "L", "E", "C", "T", " ", "*", " ", "F", "R", "O", "M", " ",
       "t", " ", "J", "O", "I", "N", " ", "u", " ", "O", "N", " ", "t", ".",
       "a", " ", "=", " ", "u", ".", "a" >>,
    \* UPDATE t SET a = 1.5, b = NULL
    << "U", "P", "D", "A", "T", "E", " ", "t", " ", "S", "E", "T", " ", "a",
       " ", "=", " ", "1", ".", "5", ",", " ", "b", " ", "=", " ", "N", "U",
       "L", "L" >>,
    \* DELETE FROM t
    << "D", "E", "L", "E", "T", "E", " ", "F", "R", "O", "M", " ", "t" >>
  }

\* conditions: comparisons, a bare expression, chains of AND and OR, a
\* text with a quote in it, arithmetic, characters that are no token, a
\* number with two decimals, and a letter and a digit beyond ASCII
Conditions ==
  {
    \* a = 1
    << "a", " ", "=", " ", "1" >>,
    \* a != 'x'
    << "a", " ", "!", "=", " ", "'", "x", "'" >>,
    \* t.a >= (b)
    << "t", ".", "a", " ", ">", "=", " ", "(", "b", ")" >>,
    \* a < 2.5
    << "a", " ", "<", " ", "2", ".", "5" >>,
    \* a
    << "a" >>,
    \* a AND b OR c
    << "a", " ", "A", "N", "D", " ", "b", " ", "O", "R", " ", "c" >>,
    \* a = 1 AND b = 2
    << "a", " ", "=", " ", "1", " ", "A", "N", "D", " ", "b", " ", "=", " ",
       "2" >>,
    \* a = 1 OR b <= 2 AND c > 3
    << "a", " ", "=", " ", "1", " ", "O", "R", " ", "b", " ", "<", "=", " ",
       "2", " ", "A", "N", "D", " ", "c", " ", ">", " ", "3" >>,
    \* a = "it's"
    << "a", " ", "=", " ", "\"", "i", "t", "'", "s", "\"" >>,
    \* a + 1 = 2
    << "a", " ", "+", " ", "1", " ", "=", " ", "2" >>,
    \* a = 1 * 2
    << "a", " ", "=", " ", "1", " ", "*", " ", "2" >>,
    \* a = @
    << "a", " ", "=", " ", "@" >>,
    \* a = 1 @
    << "a", " ", "=", " ", "1", " ", "@" >>,
    \* a = 1.25
    << "a", " ", "=", " ", "1", ".", "2", "5" >>,
    \* é < ²
    << "é", " ", "<", " ", "²" >>,
    \* a OR b AND c = 1 OR d
    << "a", " ", "O", "R", " ", "b", " ", "A", "N", "D", " ", "c", " ", "=",
       " ", "1", " ", "O", "R", " ", "d" >>
  }

\* statements of the other kinds, some of them malformed
Statements ==
  {
    \* CREATE TABLE t (A INT, b TEXT, f FLOAT, d DATE)
    << "C", "R", "E", "A", "T", "E", " ", "T", "A", "B", "L", "E", " ", "t",
       " ", "(", "A", " ", "I", "N", "T", ",", " ", "b", " ", "T", "E", "X",
       "T", ",", " ", "f", " ", "F", "L", "O", "A", "T", ",", " ", "d", " ",
       "D", "A", "T", "E", ")" >>,
    \* INSERT INTO t VALUES (1, 'x')
    << "I", "N", "S", "E", "R", "T", " ", "I", "N", "T", "O", " ", "t", " ",
       "V", "A", "L", "U", "E", "S", " ", "(", "1", ",", " ", "'", "x", "'",
       ")" >>,
    \* INSERT INTO t (a, b) VALUES (NULL, 20.0)
    << "I", "N", "S", "E", "R", "T", " ", "I", "N", "T", "O", " ", "t", " ",
       "(", "a", ",", " ", "b", ")", " ", "V", "A", "L", "U", "E", "S", " ",
       "(", "N", "U", "L", "L", ",", " ", "2", "0", ".", "0", ")" >>,
    \* INSERT INTO t VALUES (1 + 2)
    << "I", "N", "S", "E", "R", "T", " ", "I", "N", "T", "O", " ", "t", " ",
       "V", "A", "L", "U", "E", "S", " ", "(", "1", " ", "+", " ", "2", ")" >>,
    \* INSERT INTO t VALUES (1, - 2)
    << "I", "N", "S", "E", "R", "T", " ", "I", "N", "T", "O", " ", "t", " ",
       "V", "A", "L", "U", "E", "S", " ", "(", "1", ",", " ", "-", " ", "2",
       ")" >>,
    \* DROP TABLE t
    << "D", "R", "O", "P", " ", "T", "A", "B", "L", "E", " ", "t" >>,
    \* DROP TABLE t;
    << "D", "R", "O", "P", " ", "T", "A", "B", "L", "E", " ", "t", ";" >>,
    \* DROP TABLE t @
    << "D", "R", "O", "P", " ", "T", "A", "B", "L", "E", " ", "t", " ", "@"
       >>,
    \* DROP TABLE t 'ab
    << "D", "R", "O", "P", " ", "T", "A", "B", "L", "E", " ", "t", " ", "'",
       "a", "b" >>,
    \* DROP TABLE @
    << "D", "R", "O", "P", " ", "T", "A", "B", "L", "E", " ", "@" >>,
    \* SELECT a, * FROM t
    << "S", "E", "L", "E", "C", "T", " ", "a", ",", " ", "*", " ", "F", "R",
       "O", "M", " ", "t" >>,
    \* SELECT a / 2 FROM t
    << "S", "E", "L", "E", "C", "T", " ", "a", " ", "/", " ", "2", " ", "F",
       "R", "O", "M", " ", "t" >>,
    \* SELECT * FROM t # all\n
    << "S", "E", "L", "E", "C", "T", " ", "*", " ", "F", "R", "O", "M", " ",
       "t", " ", "#", " ", "a", "l", "l", "\n" >>,
    \* select * from T where A = 1
    << "s", "e", "l", "e", "c", "t", " ", "*", " ", "f", "r", "o", "m", " ",
       "T", " ", "w", "h", "e", "r", "e", " ", "A", " ", "=", " ", "1" >>
  }

\* the statements of one session
MaxLog == 3

\* the body of the loop "for sql in sql_statements": the outcome of one text
run_statement(tbls, sql) ==
  With(Parser(Lexer(sql)), LAMBDA parser :
  With(parse(parser), LAMBDA ast :
    IF ast.exc # "" THEN [ ast |-> None, outcome |-> Raised(ast.exc, tbls) ]
     ELSE [ ast |-> ast.node, outcome |-> execute_query(tbls, ast.node) ]))

(***************************************************************************)
(* The state machine                                                       *)
(***************************************************************************)
\* the caller is between two statements: nothing is being reported
NoStmt == [ type |-> "None" ]

\* what the caller sees of an outcome
Report(r) ==
  [ ret |-> r.ret, exc |-> r.exc, count |-> r.count,
    columns |-> r.columns, rows |-> r.rows ]

NoReport == Report(Returned(TRUE, << >>, 0))

Idle == stmt = NoStmt

\* a new Database(), no statement run
NewDatabase ==
  /\ tables = << >>
  /\ prev = << >>
  /\ stmt = NoStmt
  /\ result = NoReport
  /\ log = << >>

\* no Lexer is being read
NoTokenizer ==
  /\ tokenizer = Lexer(<< >>)
  /\ returned = << >>

\* no text is being compiled
NoCompiler ==
  /\ texts = << >>
  /\ asts = << >>

Init ==
  /\ NewDatabase
  /\ NoTokenizer
  /\ NoCompiler

\* db.execute_query(ast), called with the previous statement reported
Execute(ast) ==
  /\ \E r \in { execute_query(tables, ast) } :
       /\ prev' = tables
       /\ stmt' = ast
       /\ result' = Report(r)
       /\ tables' = r.tables
  /\ UNCHANGED << log, lexer_vars, compiler_vars >>

\* the caller takes the outcome and goes on to its next statement
Continue ==
  /\ ~ Idle
  /\ prev' = tables
  /\ stmt' = NoStmt
  /\ result' = NoReport
  /\ UNCHANGED << tables, log, lexer_vars, compiler_vars >>

ExecuteCreate == Idle /\ \E ast \in CreateStmts : Execute(ast)
ExecuteDrop == Idle /\ \E ast \in DropStmts : Execute(ast)
ExecuteInsert == Idle /\ TotalRows(tables) < MaxRows /\ \E ast \in InsertStmts : Execute(ast)
ExecuteUpdate == Idle /\ \E ast \in UpdateStmts : Execute(ast)
ExecuteDelete == Idle /\ \E ast \in DeleteStmts : Execute(ast)
ExecuteSelect == Idle /\ \E ast \in SelectStmts : Execute(ast)

\* db.create_table(name, [ColumnDef(str, type), ...])
CreateTable ==
  /\ Idle
  /\ \E x \in { << "t" >>, << "u" >> } :
       \E c \in { create_table(tables, x,
                                [ i \in 1..2 |-> ColumnDef(StrName(ColumnsOf(x)[i][1]),
                                                           ColumnsOf(x)[i][2]) ],
                                << >>) } :
         /\ prev' = tables
         /\ stmt' = Call("create_table", x)
         /\ result' = Report(Returned(c.ok, c.tables, 0))
         /\ tables' = c.tables
  /\ UNCHANGED << log, lexer_vars, compiler_vars >>

\* db.drop_table(name)
DropTable ==
  /\ Idle
  /\ \E x \in TableNames :
       \E d \in { drop_table(tables, x) } :
         /\ prev' = tables
         /\ stmt' = Call("drop_table", x)
         /\ result' = Report(Returned(d.ok, d.tables, 0))
         /\ tables' = d.tables
  /\ UNCHANGED << log, lexer_vars, compiler_vars >>

Next ==
  \/ ExecuteCreate
  \/ ExecuteDrop
  \/ ExecuteInsert
  \/ ExecuteUpdate
  \/ ExecuteDelete
  \/ ExecuteSelect
  \/ CreateTable
  \/ DropTable
  \/ Continue

Spec == Init /\ [][Next]_vars

\* the texts run so far are the first of the list of test_sql, and sql is
\* the next of that list
NextOfList(sql) ==
  /\ Len(log) < Len(sql_statements)
  /\ \A i \in 1..Len(log) : log[i].sql = sql_statements[i]
  /\ sql = sql_statements[Len(log) + 1]

\* the clause "except Exception" of the loop: the classes it catches,
\* which are those that derive from Exception
Exception ==
  { "SyntaxError", "ValueError", "KeyError", "IndexError", "AttributeError",
    "TypeError", "ZeroDivisionError" }

\* one turn of the batch runner's loop on the text sql: the loop runs the
\* list of test_sql to its end, or a list of up to MaxLog texts, as long
\* as no exception has left it
RunStatement(sql) ==
  /\ Len(log) < MaxLog \/ NextOfList(sql)
  /\ result.exc # "" => result.exc \in Exception
  /\ \E r \in { run_statement(tables, sql) } :
       /\ prev' = tables
       /\ stmt' = r.ast
       /\ result' = Report(r.outcome)
       /\ tables' = r.outcome.tables
       /\ log' = Append(log, [ sql |-> sql, ret |-> r.outcome.ret ])
  /\ UNCHANGED << lexer_vars, compiler_vars >>

Batch == \E sql \in SessionTexts : RunStatement(sql)

\* a session of the batch runner on a new Database()
Session == Init /\ [][Batch]_vars

(***************************************************************************)
(* Executed statements alone: every table is made by a CREATE statement    *)
(* as the parser builds it, and nothing but CREATE, INSERT, UPDATE, DELETE *)
(* and DROP statements is executed.                                        *)
(***************************************************************************)
\* CREATE TABLE t (A INT, b TEXT), CREATE TABLE T (A INT, b TEXT) and
\* CREATE TABLE u (f FLOAT, d DATE)
ExecutedCreates ==
  { CreateStmt(x, [ i \in 1..2 |-> ColumnDefNode(ColumnsOf(x)[i][1], ColumnsOf(x)[i][2]) ])
      : x \in TableNames }

ExecuteCreateOfAny == Idle /\ \E ast \in ExecutedCreates : Execute(ast)

ExecutionsNext ==
  \/ ExecuteCreateOfAny
  \/ ExecuteDrop
  \/ ExecuteInsert
  \/ ExecuteUpdate
  \/ ExecuteDelete
  \/ Continue

Executions == Init /\ [][ExecutionsNext]_vars

(***************************************************************************)
(* Batches: the loop of the batch runner on a new Database(), over lists   *)
(* of up to MaxLog short texts, among them texts that do not parse and     *)
(* statements that fail.                                                   *)
(***************************************************************************)
\* CREATE TABLE t (a INT, b TEXT)
BatchCreate ==
  << "C", "R", "E", "A", "T", "E", " ", "T", "A", "B", "L", "E", " ", "t",
     " ", "(", "a", " ", "I", "N", "T", ",", " ", "b", " ", "T", "E", "X",
     "T", ")" >>

\* INSERT INTO t VALUES (1, 'x')
BatchInsert ==
  << "I", "N", "S", "E", "R", "T", " ", "I", "N", "T", "O", " ", "t", " ",
     "V", "A", "L", "U", "E", "S", " ", "(", "1", ",", " ", "'", "x", "'",
     ")" >>

\* INSERT INTO t VALUES ('x', 1)
BatchInsertMistyped ==
  << "I", "N", "S", "E", "R", "T", " ", "I", "N", "T", "O", " ", "t", " ",
     "V", "A", "L", "U", "E", "S", " ", "(", "'", "x", "'", ",", " ", "1",
     ")" >>

\* INSERT INTO t (a) VALUES (1)
BatchInsertNamed ==
  << "I", "N", "S", "E", "R", "T", " ", "I", "N", "T", "O", " ", "t", " ",
     "(", "a", ")", " ", "V", "A", "L", "U", "E", "S", " ", "(", "1", ")" >>

\* UPDATE t SET a = NULL WHERE a <= 1
BatchUpdate ==
  << "U", "P", "D", "A", "T", "E", " ", "t", " ", "S", "E", "T", " ", "a",
     " ", "=", " ", "N", "U", "L", "L", " ", "W", "H", "E", "R", "E", " ",
     "a", " ", "<", "=", " ", "1" >>

\* DELETE FROM t WHERE a = 1
BatchDeleteWhere ==
  << "D", "E", "L", "E", "T", "E", " ", "F", "R", "O", "M", " ", "t", " ",
     "W", "H", "E", "R", "E", " ", "a", " ", "=", " ", "1" >>

\* DELETE FROM t
BatchDelete ==
  << "D", "E", "L", "E", "T", "E", " ", "F", "R", "O", "M", " ", "t" >>

\* DROP TABLE t
BatchDrop ==
  << "D", "R", "O", "P", " ", "T", "A", "B", "L", "E", " ", "t" >>

\* SELECT * FROM t
BatchSelect ==
  << "S", "E", "L", "E", "C", "T", " ", "*", " ", "F", "R", "O", "M", " ",
     "t" >>

\* INSERT t VALUES (1)
BatchNoParse ==
  << "I", "N", "S", "E", "R", "T", " ", "t", " ", "V", "A", "L", "U", "E",
     "S", " ", "(", "1", ")" >>

BatchTexts ==
  { BatchCreate, BatchInsert, BatchInsertMistyped, BatchInsertNamed,
    BatchUpdate, BatchDeleteWhere, BatchDelete, BatchDrop, BatchSelect,
    BatchNoParse }

RunBatch == \E sql \in BatchTexts : RunStatement(sql)

Batches == Init /\ [][RunBatch]_vars

(***************************************************************************)
(* The tokenizer alone: a Lexer on a text, read by get_next_token call     *)
(* after call, past the end of the input too.                              *)
(***************************************************************************)
MaxLen == 3         \* characters of a text that is tokenized
MaxEOF == 2         \* calls of get_next_token that return EOF

\* a letter, a digit, blank and newline, the comment marker, a quote, an
\* operator character, a character that is a token only before "=", and
\* the character '\0' that peek also returns past the end of the input
LexAlphabet == { "a", "1", " ", "\n", "#", "'", "=", "!", Nul }

\* age > 30
AgeOver30 == << "a", "g", "e", " ", ">", " ", "3", "0" >>

LexTexts ==
  UNION { [ 1..n -> LexAlphabet ] : n \in 0..MaxLen } \cup { AgeOver30 }

\* the tokens of kind EOF among the tokens returned
EOFs(toks) == Cardinality({ i \in 1..Len(toks) : toks[i].type = "EOF" })

TokenizerInit ==
  /\ NewDatabase
  /\ NoCompiler
  /\ \E text \in LexTexts : tokenizer = Lexer(text)
  /\ returned = << >>

\* token = lexer.get_next_token()
NextToken ==
  /\ EOFs(returned) < MaxEOF
  /\ \E r \in { get_next_token(tokenizer) } :
       /\ tokenizer' = r.lexer
       /\ returned' = Append(returned, r.token)
  /\ UNCHANGED << database_vars, compiler_vars >>

Tokenizer == TokenizerInit /\ [][NextToken]_vars

(***************************************************************************)
(* The compiler alone: a text is parsed, the AST is turned into text by    *)
(* SQLGenerator.generate_sql, that text is parsed again, and so on.        *)
(***************************************************************************)
\* " WHERE "
Where == << " " >> \o Keyword("WHERE") \o << " " >>

\* SELECT * FROM t JOIN u ON
JoinOn ==
  << "S", "E", "L", "E", "C", "T", " ", "*", " ", "F", "R", "O", "M", " ",
     "t", " ", "J", "O", "I", "N", " ", "u", " ", "O", "N", " " >>

\* the texts that are compiled
Programs ==
  Heads \cup { h \o Where \o c : h \in Heads, c \in Conditions }
        \cup { JoinOn \o c : c \in Conditions }
        \cup Statements \cup SessionTexts

\* the texts of one run: the text given and the texts generated from it
MaxTexts == 3

\* Parser(Lexer(text)).parse(): [exc, node, parser]
compile(text) == parse(Parser(Lexer(text)))

CompilerInit ==
  /\ NewDatabase
  /\ NoTokenizer
  /\ \E text \in Programs : texts = << Text(text) >>
  /\ asts = << >>

\* the last text is parsed
Parse ==
  /\ Len(asts) < Len(texts)
  /\ texts[Len(texts)].exc = ""
  /\ asts' = Append(asts, compile(texts[Len(texts)].text))
  /\ UNCHANGED << texts, database_vars, lexer_vars >>

\* the last AST is turned into text
Generate ==
  /\ Len(asts) = Len(texts)
  /\ Len(texts) < MaxTexts
  /\ asts[Len(asts)].exc = ""
  /\ texts' = Append(texts, generate_sql(asts[Len(asts)].node))
  /\ UNCHANGED << asts, database_vars, lexer_vars >>

CompilerNext == Parse \/ Generate

Compiler == CompilerInit /\ [][CompilerNext]_vars

(***************************************************************************)
(* Queries on tables made by Database.create_table: SELECTs with further   *)
(* FROM tables and JOIN clauses, qualified names x.y, and UPDATEs whose    *)
(* SET right-hand sides are names.                                         *)
(***************************************************************************)
MaxStored == 2      \* rows stored in the catalog while queries are run

\* x.y as Parser.expression builds it
Dot(x, y) == Binary("EXPRESSION", Identifier(x), "DOT", Identifier(y))

\* JOIN x ON cond as Parser.join_clause builds it
Join(x, cond) == [ type |-> "JOIN", table |-> TableRef(x), condition |-> cond ]

\* INSERT statements that store rows of t and of u
RowStmts ==
  { \* INSERT INTO t VALUES (1, 'x')
    InsertStmt(<< "t" >>, << >>, << IntLit(1), StrLit(<< "x" >>) >>),
    \* INSERT INTO t VALUES (NULL, 'b')
    InsertStmt(<< "t" >>, << >>, << NullLit, StrLit(<< "b" >>) >>),
    \* INSERT INTO t (b, a) VALUES ('y', 2)
    InsertStmt(<< "t" >>, << Id(<< "b" >>), Id(<< "a" >>) >>, << StrLit(<< "y" >>), IntLit(2) >>),
    \* INSERT INTO t (B) VALUES (t.c)
    InsertStmt(<< "t" >>, << Id(<< "B" >>) >>, << Dot(<< "t" >>, << "c" >>) >>),
    \* INSERT INTO t VALUES (1, t.b, 2)
    InsertStmt(<< "t" >>, << >>, << IntLit(1), Dot(<< "t" >>, << "b" >>), IntLit(2) >>),
    \* INSERT INTO t (a, A) VALUES (1, 2)
    InsertStmt(<< "t" >>, << Id(<< "a" >>), Id(<< "A" >>) >>, << IntLit(1), IntLit(2) >>),
    \* INSERT INTO t (c) VALUES (1)
    InsertStmt(<< "t" >>, << Id(<< "c" >>) >>, << IntLit(1) >>),
    \* INSERT INTO t VALUES ('x', 'x')
    InsertStmt(<< "t" >>, << >>, << StrLit(<< "x" >>), StrLit(<< "x" >>) >>),
    \* INSERT INTO t VALUES (1)
    InsertStmt(<< "t" >>, << >>, << IntLit(1) >>),
    \* INSERT INTO t (b, A) VALUES (1, 1)
    InsertStmt(<< "t" >>, << Id(<< "b" >>), Id(<< "A" >>) >>, << IntLit(1), IntLit(1) >>),
    \* INSERT INTO u VALUES (1.5, 'd')
    InsertStmt(<< "u" >>, << >>, << FloatLit(15), StrLit(<< "d" >>) >>) }

\* WHERE conditions with qualified names and with names of no column
DotConds ==
  { Cmp(Dot(<< "t" >>, << "a" >>), "EQUALS", IntLit(1)),
    Cmp(Dot(<< "t" >>, << "b" >>), "EQUALS", StrLit(<< "t", ".", "x" >>)),
    Cmp(Dot(<< "a" >>, << "b" >>), "EQUALS", StrLit(<< "x" >>)),
    Cmp(Dot(<< "b" >>, << "c" >>), "EQUALS", StrLit(<< "x", ".", "c" >>)),
    Cmp(Dot(<< "t" >>, << "c" >>), "EQUALS", StrLit(<< "t", ".", "c" >>)),
    Cmp(Id(<< "c" >>), "EQUALS", StrLit(<< "c" >>)),
    Cmp(Id(<< "c" >>), "LESS", Id(<< "b" >>)),
    Cmp(Id(<< "c" >>), "LESS", Id(<< "a" >>)),
    Id(<< "c" >>) }

\* SELECTs from one table, without JOIN
PlainSelects ==
  { SelectStmt(cols, << TableRef(<< "t" >>) >>, << >>, w) :
      cols \in { << Id(<< "*" >>) >>, << Id(<< "b" >>), Id(<< "A" >>) >> },
      w \in { None, Cmp(Id(<< "a" >>), "EQUALS", IntLit(1)) } } \cup
  { SelectStmt(<< Id(<< "*" >>) >>, << TableRef(<< "v" >>) >>, << >>, None),
    SelectStmt(<< Id(<< "c" >>) >>, << TableRef(<< "T" >>) >>, << >>, None),
    SelectStmt(<< Id(<< "a" >>), Id(<< "c" >>) >>, << TableRef(<< "t" >>) >>, << >>,
               Cmp(Id(<< "c" >>), "EQUALS", StrLit(<< "c" >>))) }

\* SELECTs whose WHERE holds qualified names and names of no column
DotSelects ==
  { SelectStmt(<< Id(<< "*" >>) >>, << TableRef(<< "t" >>) >>, << >>, w) : w \in DotConds }

\* what may follow the first table of a FROM list: further tables and JOIN
\* clauses, of tables the catalog may hold (u) and of one it never holds (v)
FurtherTables == { << >>, << TableRef(<< "u" >>) >>, << TableRef(<< "v" >>), TableRef(<< "t" >>) >> }

Joins ==
  { << >>,
    << Join(<< "u" >>, Cmp(Dot(<< "t" >>, << "a" >>), "EQUALS", Dot(<< "u" >>, << "f" >>))) >>,
    << Join(<< "v" >>, Cmp(Dot(<< "v" >>, << "c" >>), "LESS", Id(<< "a" >>))),
       Join(<< "t" >>, Id(<< "c" >>)) >> }

\* the statement with tables and joins after its first table
Joined(ast, tbls, joins) ==
  [ ast EXCEPT !.tables = << ast.tables[1] >> \o tbls, !.joins = joins ]

JoinedSelects ==
  { Joined(ast, tbls, joins) : ast \in PlainSelects, tbls \in FurtherTables, joins \in Joins }
    \cup DotSelects

\* UPDATEs whose SET right-hand sides are names, qualified names and literals
NamedSetLists ==
  { << SetClause(<< "b" >>, Id(<< "a" >>)) >>,
    << SetClause(<< "A" >>, Id(<< "a" >>)) >>,
    << SetClause(<< "b" >>, Dot(<< "t" >>, << "b" >>)) >>,
    << SetClause(<< "a" >>, IntLit(2)), SetClause(<< "b" >>, Id(<< "c" >>)) >>,
    << SetClause(<< "a" >>, IntLit(2)), SetClause(<< "c" >>, IntLit(1)) >>,
    << SetClause(<< "c" >>, IntLit(1)), SetClause(<< "a" >>, IntLit(2)) >> }

NamedUpdates ==
  { UpdateStmt(<< "t" >>, sl, w) :
      sl \in NamedSetLists,
      w \in { None, Cmp(Id(<< "a" >>), "EQUALS", IntLit(1)) } } \cup
  { UpdateStmt(<< "t" >>, << SetClause(<< "b" >>, Id(<< "a" >>)) >>,
               Cmp(Id(<< "c" >>), "EQUALS", StrLit(<< "c" >>))) }

\* DELETEs whose WHERE names no column
NamedDeletes ==
  { DeleteStmt(<< "t" >>, w) :
      w \in { Cmp(Id(<< "c" >>), "EQUALS", StrLit(<< "c" >>)),
              Cmp(Id(<< "c" >>), "NOT_EQUALS", StrLit(<< "c" >>)),
              Cmp(Id(<< "c" >>), "LESS", Id(<< "b" >>)) } }

StoreRow == Idle /\ TotalRows(tables) < MaxStored /\ \E ast \in RowStmts : Execute(ast)
Select == Idle /\ \E ast \in JoinedSelects : Execute(ast)
SelectQualified == Idle /\ \E ast \in DotSelects : Execute(ast)
Update == Idle /\ \E ast \in NamedUpdates : Execute(ast)
Delete == Idle /\ \E ast \in NamedDeletes : Execute(ast)

QueriesNext ==
  \/ CreateTable
  \/ StoreRow
  \/ SelectQualified
  \/ Update
  \/ Delete
  \/ Continue

Queries == Init /\ [][QueriesNext]_vars

\* SELECTs alone, on the rows that INSERTs stored
ReadsNext ==
  \/ CreateTable
  \/ StoreRow
  \/ Select
  \/ Continue

Reads == Init /\ [][ReadsNext]_vars

(***************************************************************************)
(* The query editor: SQLGenerator(db).execute_without_cursor(query),       *)
(* called directly and by the window for the text in its editor, and       *)
(* SQLGenerator(db).execute(query), on a database whose tables were made   *)
(* by Database.create_table.                                               *)
(***************************************************************************)
\* the Python list of the tokens, as opposed to an instance of Parser
PyList(items) == [ class |-> "list", items |-> items ]

\* Parser.parse called on the class, self being whatever is passed:
\* "return self.sql_statement()" looks the method up on self
Parser_parse(self) ==
  IF "class" \in DOMAIN self /\ self.class = "list"
    THEN [ exc |-> "AttributeError", node |-> None, parser |-> self ]
  ELSE parse(self)

\* what execute_without_cursor returns, the exception its except clause
\* caught, and the ASTs it handed to Database.execute_query
Answered(outcome, caught, executed) ==
  [ outcome |-> outcome, caught |-> caught, executed |-> executed ]

\* execute_without_cursor parsing with a Parser made for the query and
\* handing the statement to the database
execute_without_cursor_parsing(tbls, query) ==
  With(parse(Parser(Lexer(query))), LAMBDA ast :
    IF ast.exc # "" THEN Answered(Returned(FALSE, tbls, 0), ast.exc, << >>)
    ELSE With(execute_query(tbls, ast.node), LAMBDA r :
      IF r.ret = "raised"
        THEN Answered([ r EXCEPT !.ret = "False", !.exc = "" ], r.exc, << ast.node >>)
      ELSE Answered(r, "", << ast.node >>)))

\* SQLGenerator.execute_without_cursor: self.parser is the class Parser,
\* and an ASTNode, had parse returned one, cannot be iterated over
execute_without_cursor(tbls, query) ==
  With(tokenize(query), LAMBDA tokens :
  With(Parser_parse(PyList(tokens)), LAMBDA ast_list :
    IF ast_list.exc # ""
      THEN Answered(Returned(FALSE, tbls, 0), ast_list.exc, << >>)
    ELSE Answered(Returned(FALSE, tbls, 0), "TypeError", << >>)))

\* str.strip(): the text without the whitespace at its ends
RECURSIVE lstrip(_)
lstrip(s) == IF Len(s) > 0 /\ isspace(Head(s)) THEN lstrip(Tail(s)) ELSE s

RECURSIVE rstrip(_)
rstrip(s) ==
  IF Len(s) > 0 /\ isspace(s[Len(s)]) THEN rstrip(SubSeq(s, 1, Len(s) - 1)) ELSE s

strip(s) == rstrip(lstrip(s))

\* str.split(' ') from character i on, cur being the part read so far:
\* every single blank ends a part
RECURSIVE split_from(_, _, _)
split_from(s, i, cur) ==
  IF i > Len(s) THEN << cur >>
  ELSE IF s[i] = " " THEN << cur >> \o split_from(s, i + 1, << >>)
  ELSE split_from(s, i + 1, Append(cur, s[i]))

split(s) == split_from(s, 1, << >>)

startswith(s, prefix) ==
  Len(s) >= Len(prefix) /\ SubSeq(s, 1, Len(prefix)) = prefix

\* what SQLGenerator.execute returns: ret is "tuple" for (columns, rows),
\* "1", "None", or "raised"
Executed(ret, exc, tbls, columns, rows) ==
  [ ret |-> ret, exc |-> exc, tables |-> tbls, count |-> 0,
    columns |-> columns, rows |-> rows ]

\* SQLGenerator.execute: it looks at the first word and takes the table
\* name from the words between single blanks; no parser is involved
execute(tbls, query) ==
  With(Lower(strip(query)), LAMBDA q :
  With(split(query), LAMBDA words :
    IF startswith(q, << "s", "e", "l", "e", "c", "t" >>) THEN
      IF Len(words) < 4 THEN Executed("raised", "IndexError", tbls, << >>, << >>)
      ELSE With(get_table(tbls, words[4]), LAMBDA table :
        IF table = None THEN Executed("raised", "ValueError", tbls, << >>, << >>)
        ELSE Executed("tuple", "", tbls,
                      [ i \in 1..Len(table.columns) |-> table.columns[i].name ],
                      table.rows))
    ELSE IF startswith(q, << "i", "n", "s", "e", "r", "t" >>) THEN
      IF Len(words) < 3 THEN Executed("raised", "IndexError", tbls, << >>, << >>)
      ELSE With(get_table(tbls, words[3]), LAMBDA table :
        IF table = None THEN Executed("raised", "ValueError", tbls, << >>, << >>)
        ELSE With(add_row(table, << PyInt(1),
                                    PyStr(<< "e", "x", "a", "m", "p", "l", "e" >>) >>),
                  LAMBDA a :
          Executed("1", "",
                   [ tbls EXCEPT ![Lower(words[3])].rows = a.rows ], << >>, << >>)))
    ELSE IF startswith(q, << "u", "p", "d", "a", "t", "e" >>)
      THEN Executed("1", "", tbls, << >>, << >>)
    ELSE IF startswith(q, << "d", "e", "l", "e", "t", "e" >>)
      THEN Executed("1", "", tbls, << >>, << >>)
    ELSE Executed("None", "", tbls, << >>, << >>)))

\* SQLCompilerUI.display_results: what the window shows for a result; a
\* bool is an int to isinstance
display_results(r) ==
  IF r.ret = "tuple" THEN "Showing rows"
  ELSE IF r.ret \in { "True", "False", "1" } THEN "Affected rows"
  ELSE "Result"

\* the texts given to the editor: statements on the table t, well-formed
\* and malformed, the empty text, blanks, and a statement within blanks
EditorTexts ==
  Heads \cup Statements \cup
  { << >>, << " ", "\n" >>,
    << " ", "D", "R", "O", "P", " ", "T", "A", "B", "L", "E", " ", "t", "\n" >> }

\* what a call of execute_without_cursor leaves to be seen
Called(query, r, displayed) ==
  [ type |-> "execute_without_cursor", query |-> query, caught |-> r.caught,
    executed |-> r.executed, displayed |-> displayed ]

\* compiler.execute_without_cursor(query), called on any text
ExecuteWithoutCursor ==
  /\ Idle
  /\ \E query \in EditorTexts :
       \E r \in { execute_without_cursor(tables, query) } :
         /\ prev' = tables
         /\ stmt' = Called(query, r, "")
         /\ result' = Report(r.outcome)
         /\ tables' = r.outcome.tables
  /\ UNCHANGED << log, lexer_vars, compiler_vars >>

\* SQLCompilerUI.execute_query with text in the editor: the text is
\* stripped, an empty one is answered by a warning, any other goes to
\* execute_without_cursor and its result to display_results
ExecuteQuery ==
  /\ Idle
  /\ \E text \in EditorTexts :
       \E query \in { strip(text) } :
         IF Len(query) = 0
           THEN /\ prev' = tables
                /\ stmt' = [ type |-> "showwarning", query |-> query ]
                /\ result' = NoReport
                /\ tables' = tables
         ELSE \E r \in { execute_without_cursor(tables, query) } :
                /\ prev' = tables
                /\ stmt' = Called(query, r, display_results(r.outcome))
                /\ result' = Report(r.outcome)
                /\ tables' = r.outcome.tables
  /\ UNCHANGED << log, lexer_vars, compiler_vars >>

\* compiler.execute(query), called on any text
CallExecute ==
  /\ Idle
  /\ \E query \in EditorTexts :
       \E r \in { execute(tables, query) } :
         /\ TotalRows(r.tables) <= MaxStored
         /\ prev' = tables
         /\ stmt' = [ type |-> "execute", query |-> query ]
         /\ result' = Report(r)
         /\ tables' = r.tables
  /\ UNCHANGED << log, lexer_vars, compiler_vars >>

EditorNext ==
  \/ CreateTable
  \/ ExecuteWithoutCursor
  \/ ExecuteQuery
  \/ CallExecute
  \/ Continue

Editor == Init /\ [][EditorNext]_vars

(***************************************************************************)
(* Vocabulary of the properties                                            *)
(***************************************************************************)
\* every spelling of x in upper and lower case letters
CaseVariants(x) ==
  { y \in [ 1..Len(x) -> { LowerChar(x[i]) : i \in 1..Len(x) } \cup
                         { UpperChar(x[i]) : i \in 1..Len(x) } ] :
      \A i \in 1..Len(x) : y[i] \in { LowerChar(x[i]), UpperChar(x[i]) } }

\* names that are no column of t or u
OtherNames == { << "c" >>, << "a", "b" >>, << "*" >>, << >> }

\* the statement last run names a table the catalog held before it ran
OnTable(kind) ==
  /\ stmt.type = kind
  /\ Lower(stmt.table.name) \in DOMAIN prev

Target == prev[Lower(stmt.table.name)]
After  == tables[Lower(stmt.table.name)]

\* the table with its column names as the text that was declared
Declared(table) ==
  [ table EXCEPT !.columns =
      [ i \in 1..Len(table.columns) |->
          ColumnDef(StrName(table.columns[i].name.name), table.columns[i].type) ] ]

\* the position (from 1) of the column a name denotes, 0 when there is none
Position(table, x) ==
  IF \E j \in 1..Len(table.columns) : Lower(table.columns[j].name.name) = Lower(x)
    THEN CHOOSE j \in 1..Len(table.columns) :
           /\ Lower(table.columns[j].name.name) = Lower(x)
           /\ \A k \in 1..(j - 1) : Lower(table.columns[k].name.name) # Lower(x)
  ELSE 0

\* the row satisfies the WHERE clause, its names read as the declared columns
Satisfies(where_clause, table, row) ==
  \/ where_clause = None
  \/ evaluate_condition(where_clause, Declared(table), row) = [ exc |-> "", val |-> TRUE ]

Matching(where_clause, table) ==
  { i \in 1..Len(table.rows) : Satisfies(where_clause, table, table.rows[i]) }

\* the rows at the positions of keep, in their order
RECURSIVE Restrict(_, _, _)
Restrict(rows, keep, i) ==
  IF i > Len(rows) THEN << >>
  ELSE IF i \in keep THEN << rows[i] >> \o Restrict(rows, keep, i + 1)
  ELSE Restrict(rows, keep, i + 1)

\* the declared type accepts the value
Accepts(declared, v) ==
  \/ v.ty = "NoneType"
  \/ declared = "INT" /\ v.ty = "int"
  \/ declared = "FLOAT" /\ v.ty \in { "int", "float" }
  \/ declared \in { "TEXT", "DATE" } /\ v.ty = "str"

(***************************************************************************)
(* C1: on an empty catalog, CREATE TABLE users (id INT, name TEXT, age INT, *)
(* salary FLOAT), then INSERT INTO users (id, name, age, salary) VALUES    *)
(* (1, 'John', 30, 50000.0), then SELECT * FROM users WHERE age > 25, each *)
(* run through Lexer, Parser and execute_query, all succeed, and the       *)
(* SELECT shows the columns id, name, age, salary and the one row          *)
(* 1, 'John', 30, 50000.0.                                                 *)
(***************************************************************************)
C1_Scenario ==
  (/\ Len(log) = 3
   /\ log[1].sql = ScenarioCreate
   /\ log[2].sql = ScenarioInsert
   /\ log[3].sql = ScenarioSelect) =>
    /\ \A i \in 1..3 : log[i].ret = "True"
    /\ result.columns = << << "i", "d" >>, << "n", "a", "m", "e" >>,
                           << "a", "g", "e" >>,
                           << "s", "a", "l", "a", "r", "y" >> >>
    /\ result.rows = << << PyInt(1), PyStr(<< "J", "o", "h", "n" >>), PyInt(30),
                           PyFloat(500000) >> >>

(***************************************************************************)
(* C2: after CREATE TABLE t (c1 T1, ..., cn Tn) succeeds, table t has the  *)
(* n declared columns in order, column i is named by the text ci and has   *)
(* type Ti, and get_column_index gives i for every case variant of ci and  *)
(* -1 for a name of no column.                                             *)
(***************************************************************************)
C2_CreatedColumns ==
  (stmt.type = "CREATE_STMT" /\ result.ret = "True") =>
    /\ Len(After.columns) = Len(stmt.columns)
    /\ \A i \in 1..Len(stmt.columns) :
         /\ After.columns[i].name = StrName(stmt.columns[i].name.name)
         /\ After.columns[i].type = stmt.columns[i].data_type
         /\ \A x \in CaseVariants(stmt.columns[i].name.name) :
              get_column_index(After, StrName(x)) = [ exc |-> "", idx |-> i - 1 ]
    /\ \A x \in OtherNames :
         get_column_index(After, StrName(x)) = [ exc |-> "", idx |-> -1 ]

(***************************************************************************)
(* C3: CREATE TABLE with any case variant of the name of an existing table *)
(* fails and leaves that table and every other table as they were.         *)
(***************************************************************************)
C3_DuplicateCreateRefused ==
  (OnTable("CREATE_STMT") \/ OnTable("create_table")) =>
    /\ result.ret = "False"
    /\ tables = prev

C3_Witness ==
  /\ OnTable("CREATE_STMT")
  /\ stmt.table.name # Target.name
  /\ Len(Target.rows) >= 2
  /\ Cardinality(DOMAIN prev) = 2
  /\ result.ret = "False"

(***************************************************************************)
(* C4: an INSERT with a column list and a number of values other than the  *)
(* number of named columns fails, the row count unchanged.                 *)
(***************************************************************************)
CountMismatch ==
  /\ stmt.type = "INSERT_STMT"
  /\ Len(stmt.columns) > 0
  /\ Len(stmt.values) # Len(stmt.columns)

C4_MismatchFails ==
  (CountMismatch /\ Lower(stmt.table.name) \in DOMAIN prev) =>
    /\ result.ret # "True"
    /\ Len(After.rows) = Len(Target.rows)

\* the values a named INSERT places: position j of the row receives the
\* value paired with the last name that denotes column j, else None
Shorter == IF Len(stmt.values) < Len(stmt.columns)
             THEN Len(stmt.values) ELSE Len(stmt.columns)

Placed(table, j) ==
  LET is == { i \in 1..Shorter : Position(table, stmt.columns[i].name) = j } IN
    IF is = {} THEN PyNone
    ELSE evaluate_expression(stmt.values[CHOOSE i \in is : \A k \in is : k <= i],
                             None, << >>).val

(***************************************************************************)
(* C5: after DELETE FROM t WHERE cond the rows of t are the rows that did  *)
(* not satisfy cond, in their order, none that satisfied it remains, and   *)
(* the count reported is the number of rows removed.                       *)
(***************************************************************************)
C5_DeleteRemovesMatching ==
  OnTable("DELETE_STMT") =>
    LET hit == Matching(stmt.where_clause, Target) IN
      /\ After.rows = Restrict(Target.rows, (1..Len(Target.rows)) \ hit, 1)
      /\ result.count = Cardinality(hit)

(***************************************************************************)
(* C6: UPDATE t SET c = expr WHERE cond, c naming columns of t, changes    *)
(* the rows that satisfy cond and no other, sets the SET columns only,     *)
(* keeps the order and number of rows, and reports the number of rows that *)
(* satisfied cond.                                                         *)
(***************************************************************************)
\* the value the last SET clause for column j assigns, else the old value
Assigned(row, j) ==
  LET is == { i \in 1..Len(stmt.set_clauses) :
                Position(Target, stmt.set_clauses[i].left.name) = j } IN
    IF is = {} THEN row[j]
    ELSE evaluate_expression(stmt.set_clauses[CHOOSE i \in is : \A k \in is : k <= i].right,
                             None, << >>).val

SetColumnsKnown ==
  \A i \in 1..Len(stmt.set_clauses) :
    Position(Target, stmt.set_clauses[i].left.name) # 0

C6_UpdateChangesMatching ==
  (OnTable("UPDATE_STMT") /\ SetColumnsKnown) =>
    LET hit == Matching(stmt.where_clause, Target) IN
      /\ Len(After.rows) = Len(Target.rows)
      /\ \A i \in 1..Len(Target.rows) :
           After.rows[i] = IF i \in hit
                             THEN [ j \in 1..Len(Target.rows[i]) |-> Assigned(Target.rows[i], j) ]
                           ELSE Target.rows[i]
      /\ result.count = Cardinality(hit)

(***************************************************************************)
(* C7: UPDATE and DELETE are all-or-nothing: an execution that does not    *)
(* run to completion leaves every row of the table as it was.              *)
(***************************************************************************)
C7_AllOrNothing ==
  ((OnTable("UPDATE_STMT") \/ OnTable("DELETE_STMT")) /\ result.ret # "True") =>
    tables = prev

(***************************************************************************)
(* C8: every stored value that is not null has a runtime type its          *)
(* column's declared type accepts.                                         *)
(***************************************************************************)
C8_ValuesTyped ==
  \A k \in DOMAIN tables :
    \A r \in 1..Len(tables[k].rows) :
      \A j \in 1..Len(tables[k].rows[r]) :
        j <= Len(tables[k].columns) =>
          Accepts(tables[k].columns[j].type, tables[k].rows[r][j])

\* with a row stored, an INSERT of as many values as the table has columns,
\* one of them of a type its column does not accept, was refused
C8_Witness ==
  /\ OnTable("INSERT_STMT")
  /\ Len(stmt.columns) = 0
  /\ Len(stmt.values) = Len(Target.columns)
  /\ \E j \in 1..Len(stmt.values) :
       ~ Accepts(Target.columns[j].type,
                 evaluate_expression(stmt.values[j], None, << >>).val)
  /\ result.ret = "False"
  /\ TotalRows(tables) > 0
  /\ \E k \in DOMAIN tables :
       \E r \in 1..Len(tables[k].rows) :
         \E j \in 1..Len(tables[k].rows[r]) : tables[k].rows[r][j] # PyNone

(***************************************************************************)
(* C9: every row of every table has as many values as the table has        *)
(* columns.                                                                *)
(***************************************************************************)
C9_RowWidth ==
  \A k \in DOMAIN tables :
    \A r \in 1..Len(tables[k].rows) :
      Len(tables[k].rows[r]) = Len(tables[k].columns)

\* a positional INSERT with too few values was refused, a named INSERT with
\* fewer values than names was widened to the full row
C9_Witness ==
  /\ stmt.type = "INSERT_STMT"
  /\ Len(stmt.columns) = 1
  /\ Len(stmt.values) = 2
  /\ result.ret = "True"
  /\ Len(After.rows) = MaxRows
  /\ \E r \in 1..Len(After.rows) : After.rows[r][1] = PyStr(<< "x" >>)

(***************************************************************************)
(* C10: every catalog key is the lower-cased name of its table, no two     *)
(* tables have names equal ignoring case, and get_table and drop_table     *)
(* with any case variant of a table's name act on that table.              *)
(***************************************************************************)
C10_CaseInsensitiveCatalog ==
  /\ \A k \in DOMAIN tables : k = Lower(tables[k].name)
  /\ \A k1, k2 \in DOMAIN tables :
       Lower(tables[k1].name) = Lower(tables[k2].name) => k1 = k2
  /\ \A k \in DOMAIN tables :
       \A x \in CaseVariants(tables[k].name) :
         /\ get_table(tables, x) = tables[k]
         /\ With(drop_table(tables, x), LAMBDA d :
              /\ d.ok
              /\ DOMAIN d.tables = DOMAIN tables \ { k }
              /\ \A k2 \in DOMAIN tables \ { k } : d.tables[k2] = tables[k2])
  /\ (stmt.type \in { "drop_table", "DROP_STMT" } /\ Lower(stmt.table.name) \in DOMAIN prev) =>
       /\ result.ret = "True"
       /\ DOMAIN tables = DOMAIN prev \ { Lower(stmt.table.name) }
       /\ \A k \in DOMAIN tables : tables[k] = prev[k]
  /\ (stmt.type \in { "drop_table", "DROP_STMT" } /\ Lower(stmt.table.name) \notin DOMAIN prev) =>
       /\ result.ret = "False"
       /\ tables = prev

\* a table created as T was dropped as t, the other table staying
C10_Witness ==
  /\ OnTable("drop_table")
  /\ Target.name = << "T" >>
  /\ stmt.table.name = << "t" >>
  /\ result.ret = "True"
  /\ DOMAIN tables = { << "u" >> }

(***************************************************************************)
(* C11: executing a statement ends with a success result or a failure      *)
(* result: unknown tables and columns, comparisons the evaluator cannot    *)
(* perform and unsupported operands are returned as a failure, and no      *)
(* exception leaves execute_query.                                         *)
(***************************************************************************)
StatementKinds ==
  { "SELECT_STMT", "INSERT_STMT", "UPDATE_STMT", "DELETE_STMT", "CREATE_STMT",
    "DROP_STMT" }

C11_FailuresReturned ==
  stmt.type \in StatementKinds =>
    /\ result.ret \in { "True", "False" }
    /\ result.exc = ""

(***************************************************************************)
(* C12: for every AST a the parser produces, generate_sql(a) returns a     *)
(* text, that text parses again, and the text generated from the AST of    *)
(* that text is that text again.                                           *)
(***************************************************************************)
C12_RenderRoundTrip ==
  /\ \A i \in 2..Len(texts) : texts[i].exc = ""
  /\ \A i \in 2..Len(asts) : asts[i].exc = ""
  /\ \A i \in 3..Len(texts) : texts[i] = texts[i - 1]

(***************************************************************************)
(* C13: SELECT * FROM t WHERE a AND b OR c parses with the grouping        *)
(* a AND (b OR c), generate_sql returns a text for that AST, and the text  *)
(* has that grouping: it parses to a AND (b OR c), not to (a AND b) OR c.  *)
(***************************************************************************)
\* SELECT * FROM t WHERE a AND b OR c
GroupingText ==
  << "S", "E", "L", "E", "C", "T", " ", "*", " ", "F", "R", "O", "M", " ",
     "t", " ", "W", "H", "E", "R", "E", " ", "a", " ", "A", "N", "D", " ",
     "b", " ", "O", "R", " ", "c" >>

RightGrouped ==
  Cmp(Id(<< "a" >>), "AND", Cmp(Id(<< "b" >>), "OR", Id(<< "c" >>)))

C13_GroupingShown ==
  (Len(texts) >= 1 /\ texts[1].text = GroupingText) =>
    /\ Len(asts) >= 1 => (asts[1].exc = "" /\ asts[1].node.where_clause = RightGrouped)
    /\ Len(texts) >= 2 => texts[2].exc = ""
    /\ Len(asts) >= 2 => (asts[2].exc = "" /\ asts[2].node.where_clause = RightGrouped)

(***************************************************************************)
(* C14: the line and the column of every token get_next_token returns,     *)
(* ERROR and EOF tokens and STRING tokens of several lines included, are   *)
(* at least 1 and are the line and column of the first character of the    *)
(* token; age > 30 gives IDENTIFIER, GREATER, INTEGER, EOF at the columns  *)
(* 1, 5, 7, 9.                                                             *)
(***************************************************************************)
\* the line and the column of the character that pos characters precede
LineOf(input, pos) ==
  1 + Cardinality({ i \in 1..pos : input[i] = "\n" })

ColumnOf(input, pos) ==
  LET newlines == { i \in 1..pos : input[i] = "\n" } IN
    IF newlines = {} THEN pos + 1
    ELSE pos + 1 - (CHOOSE i \in newlines : \A j \in newlines : j <= i)

\* where the token of the next call starts: after blanks and a comment
TokenStart == skip_comment(skip_whitespace(tokenizer)).position

C14_TokensWhereTheyStart ==
  [][ returned' # returned =>
        LET tok == returned'[Len(returned')] IN
          /\ tok.line >= 1
          /\ tok.column >= 1
          /\ tok.line = LineOf(tokenizer.input, TokenStart)
          /\ tok.column = ColumnOf(tokenizer.input, TokenStart)
          /\ (tokenizer.input = AgeOver30 /\ Len(returned') = 4) =>
               /\ [ i \in 1..4 |-> returned'[i].type ]
                    = << "IDENTIFIER", "GREATER", "INTEGER", "EOF" >>
               /\ [ i \in 1..4 |-> returned'[i].column ] = << 1, 5, 7, 9 >>
    ]_vars

(***************************************************************************)
(* C15: no token is made of a comment: the kinds and lexemes of the tokens *)
(* of a text are those of the text with every comment, from # up to the    *)
(* end of its line, taken out, also when a newline and more tokens or      *)
(* another comment line follow the comment.                                *)
(***************************************************************************)
\* the text from its i-th character on without its comments; mode is
\* "code", "comment", or the quote of the string literal being read
RECURSIVE StripComments(_, _, _)
StripComments(input, i, mode) ==
  IF i > Len(input) THEN << >>
  ELSE IF mode = "comment" THEN
    IF input[i] = "\n" THEN << "\n" >> \o StripComments(input, i + 1, "code")
    ELSE StripComments(input, i + 1, "comment")
  ELSE IF mode = "code" THEN
    IF input[i] = "#" THEN StripComments(input, i + 1, "comment")
    ELSE IF input[i] \in { "'", "\"" }
      THEN << input[i] >> \o StripComments(input, i + 1, input[i])
    ELSE << input[i] >> \o StripComments(input, i + 1, "code")
  ELSE << input[i] >> \o
         StripComments(input, i + 1, IF input[i] = mode THEN "code" ELSE mode)

KindsAndLexemes(toks) ==
  [ i \in 1..Len(toks) |-> << toks[i].type, toks[i].lexeme >> ]

C15_CommentsSkipped ==
  KindsAndLexemes(token_stream(Lexer(tokenizer.input)))
    = KindsAndLexemes(token_stream(Lexer(StripComments(tokenizer.input, 1, "code"))))

(***************************************************************************)
(* C16: after get_next_token has returned EOF, every later call returns    *)
(* the same EOF token, same line and column, and leaves position, line and *)
(* column of the lexer as they were.                                       *)
(***************************************************************************)
C16_EOFRepeats ==
  [][ (/\ Len(returned) > 0
       /\ returned[Len(returned)].type = "EOF"
       /\ returned' # returned) =>
        /\ returned' = Append(returned, returned[Len(returned)])
        /\ tokenizer' = tokenizer
    ]_vars

\* a text of two lines was read to its end, and read again
C16_Witness ==
  /\ EOFs(returned) = MaxEOF
  /\ Len(returned) > MaxEOF
  /\ tokenizer.position = MaxLen
  /\ returned[Len(returned)].line = 2
  /\ returned[Len(returned)].column > 1

(***************************************************************************)
(* C17: when one of the tokens the parser takes from the lexer during      *)
(* parse() is an ERROR token, wherever it stands, the lookahead taken      *)
(* after the last token of the statement included, parse() raises          *)
(* SyntaxError and returns no AST.                                         *)
(***************************************************************************)
\* the tokens the parser of the i-th text took from its lexer: all tokens
\* of the text but those the parser has left unread
Handed(i) ==
  LET stream == token_stream(Lexer(texts[i].text)) IN
    SubSeq(stream, 1, Len(stream) - Len(asts[i].parser.tokens))

C17_ErrorTokenFails ==
  \A i \in 1..Len(asts) :
    (\E k \in 1..Len(Handed(i)) : Handed(i)[k].type = "ERROR") =>
      /\ asts[i].exc = "SyntaxError"
      /\ asts[i].node = None

(***************************************************************************)
(* C18: a statement with an arithmetic token (+, -, /, or a * that is not  *)
(* the lone * of a column list) after an expression or in the place of an  *)
(* expression raises SyntaxError: parse() returns no AST for it.           *)
(***************************************************************************)
ArithmeticTokens == { "PLUS", "MINUS", "ASTERISK", "DIVIDE" }

EndsExpression ==
  { "IDENTIFIER", "INTEGER", "FLOAT_LITERAL", "STRING", "NULL", "RIGHT_PAREN" }

ExpectsExpression ==
  Comparisons \cup { "SELECT", "WHERE", "ON", "AND", "OR", "COMMA", "LEFT_PAREN" }

\* SELECT * FROM, or ( * ) VALUES
LoneStar(toks, k) ==
  /\ toks[k].type = "ASTERISK"
  /\ k > 1
  /\ k < Len(toks)
  /\ \/ toks[k - 1].type = "SELECT" /\ toks[k + 1].type = "FROM"
     \/ /\ toks[k - 1].type = "LEFT_PAREN"
        /\ toks[k + 1].type = "RIGHT_PAREN"
        /\ k + 1 < Len(toks)
        /\ toks[k + 2].type = "VALUES"

Misplaced(toks, k) ==
  /\ toks[k].type \in ArithmeticTokens
  /\ k > 1
  /\ toks[k - 1].type \in EndsExpression \cup ExpectsExpression
  /\ ~ LoneStar(toks, k)

C18_ArithmeticRefused ==
  \A i \in 1..Len(asts) :
    LET toks == token_stream(Lexer(texts[i].text)) IN
      (\E k \in 1..Len(toks) : Misplaced(toks, k)) =>
        /\ asts[i].exc = "SyntaxError"
        /\ asts[i].node = None


(***************************************************************************)
(* C19: in a batch run one statement at a time against one catalog, a      *)
(* statement that fails to parse or to execute changes nothing in the      *)
(* catalog and does not stop the batch: what it raises is caught by the    *)
(* loop, which goes on to the next statement, and the catalog is the       *)
(* catalog that the successful statements alone produce when run in the    *)
(* same order.                                                             *)
(***************************************************************************)
\* the catalog after the texts of the entries from i on that succeeded,
\* run in their order on tbls
RECURSIVE SuccessfulOnly(_, _, _)
SuccessfulOnly(tbls, entries, i) ==
  IF i > Len(entries) THEN tbls
  ELSE IF entries[i].ret = "True"
    THEN SuccessfulOnly(run_statement(tbls, entries[i].sql).outcome.tables, entries, i + 1)
  ELSE SuccessfulOnly(tbls, entries, i + 1)

C19_BatchSkipsFailures ==
  /\ result.ret # "True" => tables = prev
  /\ tables = SuccessfulOnly(<< >>, log, 1)
  /\ result.exc # "" => result.exc \in Exception

\* on a catalog that holds a table, a statement that raised was followed
\* by a statement that succeeded and changed the catalog
C19_Witness ==
  /\ Len(log) = 3
  /\ log[1].ret = "True"
  /\ log[2].ret = "raised"
  /\ log[3].ret = "True"
  /\ tables # prev
  /\ prev # << >>


(***************************************************************************)
(* C20: executing a SELECT, successful or not, leaves the catalog as it    *)
(* was, and when its table and its columns exist the rows it outputs are   *)
(* the stored rows that satisfy the WHERE clause (all rows without one),   *)
(* in storage order, shown in the selected columns.                        *)
(***************************************************************************)
Selects ==
  /\ stmt.type = "SELECT_STMT"
  /\ Len(stmt.tables) > 0
  /\ Lower(stmt.tables[1].name) \in DOMAIN prev

Selected == prev[Lower(stmt.tables[1].name)]

\* the positions of the columns a SELECT list names, 0 for an unknown name
Shown(table, columns) ==
  IF columns[1].name = << "*" >> THEN [ i \in 1..Len(table.columns) |-> i ]
  ELSE [ i \in 1..Len(columns) |-> Position(table, columns[i].name) ]

C20_SelectReadsOnly ==
  stmt.type = "SELECT_STMT" =>
    /\ tables = prev
    /\ (Selects /\ \A i \in 1..Len(Shown(Selected, stmt.columns)) :
                     Shown(Selected, stmt.columns)[i] # 0) =>
         LET kept == Restrict(Selected.rows, Matching(stmt.where_clause, Selected), 1)
             cols == Shown(Selected, stmt.columns)
         IN  result.rows = [ r \in 1..Len(kept) |->
                               [ i \in 1..Len(cols) |-> kept[r][cols[i]] ] ]

\* the same of the SELECTs that return True
C20_SuccessfulSelects ==
  (stmt.type = "SELECT_STMT" /\ result.ret = "True") =>
    /\ tables = prev
    /\ Selects
    /\ LET kept == Restrict(Selected.rows, Matching(stmt.where_clause, Selected), 1)
           cols == Shown(Selected, stmt.columns)
       IN  result.rows = [ r \in 1..Len(kept) |->
                             [ i \in 1..Len(cols) |-> kept[r][cols[i]] ] ]

\* a SELECT has never changed the catalog
C20_Frame == stmt.type = "SELECT_STMT" => tables = prev


(***************************************************************************)
(* C21: the outcome of a SELECT depends only on the first table of its     *)
(* FROM list: with further FROM tables and JOIN clauses, of tables and     *)
(* columns the catalog holds or not, it returns, raises and outputs what   *)
(* the same statement with the first table alone and no JOIN does, and     *)
(* leaves the same catalog.                                                *)
(***************************************************************************)
FirstTableOnly(ast) == [ ast EXCEPT !.tables = << ast.tables[1] >>, !.joins = << >> ]

C21_OnlyFirstTable ==
  (stmt.type = "SELECT_STMT" /\ Len(stmt.tables) > 0) =>
    /\ result = Report(execute_query(prev, FirstTableOnly(stmt)))
    /\ tables = execute_query(prev, FirstTableOnly(stmt)).tables

\* a SELECT that names a table the catalog does not hold after its first
\* table and in a JOIN has output rows
C21_Witness ==
  /\ stmt.type = "SELECT_STMT"
  /\ Len(stmt.tables) > 1
  /\ Len(stmt.joins) > 0
  /\ \E i \in 2..Len(stmt.tables) : Lower(stmt.tables[i].name) \notin DOMAIN prev
  /\ \E i \in 1..Len(stmt.joins) : Lower(stmt.joins[i].table.name) \notin DOMAIN prev
  /\ result.ret = "True"
  /\ Len(result.rows) > 0


(***************************************************************************)
(* C22: a successful INSERT adds exactly one row to its table, after the   *)
(* rows the table had, and changes neither those rows nor any other        *)
(* table; an INSERT into an unknown table, with an unknown named column,   *)
(* with a number of positional values other than the number of columns,    *)
(* or with a value its column's type does not accept, fails; and a failed  *)
(* INSERT leaves the whole catalog unchanged.                              *)
(***************************************************************************)
\* the values of a positional INSERT, evaluated
Positional(i) == evaluate_expression(stmt.values[i], None, << >>).val

InsertRefused ==
  \/ Lower(stmt.table.name) \notin DOMAIN prev
  \/ /\ Lower(stmt.table.name) \in DOMAIN prev
     /\ \/ \E i \in 1..Len(stmt.columns) : Position(Target, stmt.columns[i].name) = 0
        \/ /\ Len(stmt.columns) = 0
           /\ Len(stmt.values) # Len(Target.columns)
        \/ /\ Len(stmt.columns) = 0
           /\ Len(stmt.values) = Len(Target.columns)
           /\ \E i \in 1..Len(stmt.values) :
                ~ Accepts(Target.columns[i].type, Positional(i))
        \/ /\ Len(stmt.columns) > 0
           /\ \E j \in 1..Len(Target.columns) :
                ~ Accepts(Target.columns[j].type, Placed(Target, j))

C22_InsertAppendsOne ==
  stmt.type = "INSERT_STMT" =>
    /\ InsertRefused => result.ret # "True"
    /\ IF result.ret = "True"
         THEN /\ Lower(stmt.table.name) \in DOMAIN prev
              /\ Len(After.rows) = Len(Target.rows) + 1
              /\ SubSeq(After.rows, 1, Len(Target.rows)) = Target.rows
              /\ tables = [ prev EXCEPT ![Lower(stmt.table.name)] =
                              [ Target EXCEPT !.rows = After.rows ] ]
         ELSE tables = prev

\* an INSERT has added a row to a table that held a row, the catalog
\* holding another table
C22_Witness ==
  /\ stmt.type = "INSERT_STMT"
  /\ result.ret = "True"
  /\ Lower(stmt.table.name) \in DOMAIN prev
  /\ Len(Target.rows) > 0
  /\ Len(After.rows) = Len(Target.rows) + 1
  /\ \E k \in DOMAIN prev : k # Lower(stmt.table.name)


(***************************************************************************)
(* C23: an UPDATE that names an unknown column in any of its SET clauses,  *)
(* the first or a later one, fails and modifies no row, also when earlier  *)
(* SET clauses name columns of the table and rows satisfy the WHERE        *)
(* clause.                                                                 *)
(***************************************************************************)
UnknownSetColumn(i) ==
  /\ OnTable("UPDATE_STMT")
  /\ i \in 1..Len(stmt.set_clauses)
  /\ Position(Target, stmt.set_clauses[i].left.name) = 0

C23_UnknownSetColumnFails ==
  (/\ stmt.type = "UPDATE_STMT"
   /\ \E i \in 1..Len(stmt.set_clauses) : UnknownSetColumn(i)) =>
    /\ result.ret # "True"
    /\ tables = prev

\* the unknown column is named after a column of the table, and a row
\* satisfies the WHERE clause
C23_Witness ==
  /\ UnknownSetColumn(2)
  /\ Position(Target, stmt.set_clauses[1].left.name) # 0
  /\ stmt.where_clause # None
  /\ Matching(stmt.where_clause, Target) # {}
  /\ result.ret = "False"
  /\ tables = prev


(***************************************************************************)
(* C24: a SELECT, UPDATE or DELETE whose WHERE clause names a column the   *)
(* table does not have does not fail for that name: the name stands for    *)
(* its own text in every row, so that the statement returns, outputs and   *)
(* leaves what it does with the name written as a text literal, and it     *)
(* runs to completion when the name is compared for equality with a        *)
(* literal; the same name in the column list of a SELECT makes the SELECT  *)
(* fail.                                                                   *)
(***************************************************************************)
\* the condition with every name that is no column of the table written
\* as the text literal of the name
RECURSIVE NamesAsText(_, _)
NamesAsText(node, table) ==
  IF node.type = "IDENTIFIER"
    THEN IF Position(table, node.name) = 0 THEN StrLit(node.name) ELSE node
  ELSE IF node.type \in { "CONDITION", "EXPRESSION" }
    THEN [ node EXCEPT !.left = NamesAsText(node.left, table),
                       !.right = NamesAsText(node.right, table) ]
  ELSE node

\* the name of the table a SELECT, UPDATE or DELETE reads
Read == IF stmt.type = "SELECT_STMT" THEN stmt.tables[1].name ELSE stmt.table.name

\* the statement last run has a WHERE clause with a name of no column
UnknownWhereName ==
  /\ stmt.type \in { "SELECT_STMT", "UPDATE_STMT", "DELETE_STMT" }
  /\ Lower(Read) \in DOMAIN prev
  /\ stmt.where_clause # None
  /\ NamesAsText(stmt.where_clause, prev[Lower(Read)]) # stmt.where_clause

\* the WHERE clause compares a name of no column with a literal for equality
EqualityWithLiteral ==
  /\ stmt.where_clause.type = "CONDITION"
  /\ stmt.where_clause.operator \in { "EQUALS", "NOT_EQUALS" }
  /\ stmt.where_clause.left.type = "IDENTIFIER"
  /\ stmt.where_clause.right.type = "LITERAL"

\* every name the statement resolves before it visits the rows is a column
Resolvable ==
  /\ stmt.type = "SELECT_STMT" =>
       \A i \in 1..Len(Shown(prev[Lower(Read)], stmt.columns)) :
         Shown(prev[Lower(Read)], stmt.columns)[i] # 0
  /\ stmt.type = "UPDATE_STMT" =>
       \A i \in 1..Len(stmt.set_clauses) :
         Position(prev[Lower(Read)], stmt.set_clauses[i].left.name) # 0

C24_UnknownWhereNameIsText ==
  /\ UnknownWhereName =>
       LET written == [ stmt EXCEPT !.where_clause =
                          NamesAsText(stmt.where_clause, prev[Lower(Read)]) ]
       IN  /\ result = Report(execute_query(prev, written))
           /\ tables = execute_query(prev, written).tables
           /\ (EqualityWithLiteral /\ Resolvable) => result.ret = "True"
  /\ (/\ stmt.type = "SELECT_STMT"
      /\ Len(stmt.tables) > 0
      /\ Lower(Read) \in DOMAIN prev
      /\ \E i \in 1..Len(Shown(prev[Lower(Read)], stmt.columns)) :
           Shown(prev[Lower(Read)], stmt.columns)[i] = 0) =>
       result.ret # "True"


(***************************************************************************)
(* C25: the qualified name x.y evaluates, with a row and without one, to   *)
(* the text of the value of x, a dot and the text of the value of y,       *)
(* whatever these values are (text, integer, float, null), and its         *)
(* evaluation never fails.                                                 *)
(***************************************************************************)
\* the text of a value
TextOf(v) ==
  IF v.ty = "str" THEN v.s
  ELSE IF v.ty = "int" THEN str_int(v.n)
  ELSE IF v.ty = "float" THEN str_float(v)
  ELSE << "N", "U", "L", "L" >>

\* the value of x.y in a row: the texts of the two values about a dot
DotText(dot, table, row) ==
  PyStr(TextOf(evaluate_expression(dot.left, Declared(table), row).val)
          \o << "." >> \o
        TextOf(evaluate_expression(dot.right, Declared(table), row).val))

\* SELECT * FROM a table of the catalog WHERE x.y = literal
DotWhere ==
  /\ stmt.type = "SELECT_STMT"
  /\ Lower(Read) \in DOMAIN prev
  /\ stmt.columns[1].name = << "*" >>
  /\ stmt.where_clause # None
  /\ stmt.where_clause.type = "CONDITION"
  /\ stmt.where_clause.operator = "EQUALS"
  /\ stmt.where_clause.left.type = "EXPRESSION"
  /\ stmt.where_clause.left.operator = "DOT"
  /\ stmt.where_clause.right.type = "LITERAL"

\* the rows whose x.y is the literal
DotRows ==
  Restrict(Selected.rows,
           { i \in 1..Len(Selected.rows) :
               DotText(stmt.where_clause.left, Selected, Selected.rows[i])
                 = stmt.where_clause.right.value },
           1)

\* the values of x and of y are text in every row
TextOperands ==
  \A i \in 1..Len(Selected.rows) :
    /\ evaluate_expression(stmt.where_clause.left.left, Declared(Selected),
                           Selected.rows[i]).val.ty = "str"
    /\ evaluate_expression(stmt.where_clause.left.right, Declared(Selected),
                           Selected.rows[i]).val.ty = "str"

C25_DotConcatenates ==
  /\ DotWhere =>
       /\ result.exc = ""
       /\ result.ret = "True"
       /\ result.rows = DotRows
  /\ (stmt.type = "INSERT_STMT" /\ result.ret = "True") =>
       \A i \in 1..Len(stmt.values) :
         (stmt.values[i].type = "EXPRESSION" /\ stmt.values[i].operator = "DOT") =>
           \E j \in 1..Len(After.columns) :
             After.rows[Len(After.rows)][j] =
               PyStr(stmt.values[i].left.name \o << "." >> \o stmt.values[i].right.name)

\* the same of the rows in which x and y have text values
C25_TextConcatenates ==
  (DotWhere /\ TextOperands /\ Selected = Declared(Selected)) =>
    /\ result.exc = ""
    /\ result.ret = "True"
    /\ result.rows = DotRows


(***************************************************************************)
(* C26: a chain c1 op1 c2 op2 ... cn of comparisons and bare expressions   *)
(* joined by AND and OR parses to Condition(c1, op1, Condition(c2, op2,    *)
(* ... cn)): the connectives of the text are, in their order, the          *)
(* operators met from the root down the right children, and no left child  *)
(* of a connective holds a connective, which is to say that the loop over  *)
(* trailing connectives of one call of condition runs at most once.        *)
(***************************************************************************)
Connective(node) ==
  node.type = "CONDITION" /\ node.operator \in { "AND", "OR" }

\* the connectives from the root of a condition down its right children
RECURSIVE Spine(_)
Spine(node) ==
  IF node = None \/ ~ Connective(node) THEN << >>
  ELSE << node.operator >> \o Spine(node.right)

\* no left child of a connective is, or holds, a connective
RECURSIVE RightNested(_)
RightNested(node) ==
  (node # None /\ Connective(node)) =>
    /\ ~ Connective(node.left)
    /\ node.left.type = "CONDITION" =>
         (~ Connective(node.left.left) /\ ~ Connective(node.left.right))
    /\ RightNested(node.right)

\* the connectives of the conditions of a statement: of its JOIN clauses,
\* then of its WHERE clause
RECURSIVE JoinSpines(_)
JoinSpines(joins) ==
  IF Len(joins) = 0 THEN << >>
  ELSE Spine(Head(joins).condition) \o JoinSpines(Tail(joins))

Spines(ast) ==
  IF ast.type = "SELECT_STMT" THEN JoinSpines(ast.joins) \o Spine(ast.where_clause)
  ELSE IF ast.type \in { "UPDATE_STMT", "DELETE_STMT" } THEN Spine(ast.where_clause)
  ELSE << >>

IsConnective(token) == token.type \in { "AND", "OR" }

\* the AND and OR tokens the parser of the i-th text took, in their order
ConnectivesRead(i) ==
  LET read == SelectSeq(Handed(i), IsConnective) IN
    [ k \in 1..Len(read) |-> read[k].type ]

C26_ChainsNestRight ==
  \A i \in 1..Len(asts) :
    asts[i].exc = "" =>
      /\ Spines(asts[i].node) = ConnectivesRead(i)
      /\ asts[i].node.type \in { "SELECT_STMT", "UPDATE_STMT", "DELETE_STMT" } =>
           RightNested(asts[i].node.where_clause)
      /\ asts[i].node.type = "SELECT_STMT" =>
           \A j \in 1..Len(asts[i].node.joins) :
             RightNested(asts[i].node.joins[j].condition)

\* a OR b AND c = 1 OR d has been parsed
C26_Witness ==
  /\ Len(asts) >= 1
  /\ asts[1].exc = ""
  /\ asts[1].node.type = "DELETE_STMT"
  /\ asts[1].node.where_clause =
       Cmp(Id(<< "a" >>), "OR",
           Cmp(Id(<< "b" >>), "AND",
               Cmp(Cmp(Id(<< "c" >>), "EQUALS", IntLit(1)), "OR", Id(<< "d" >>))))


(***************************************************************************)
(* C27, as claimed: a named INSERT with as many values as names that       *)
(* succeeds appends a row that holds value i at the position of the        *)
(* column name i denotes, for every i, and null at every column that is    *)
(* not named, whatever the order of the names.                             *)
(***************************************************************************)
NamedInsert ==
  /\ OnTable("INSERT_STMT")
  /\ Len(stmt.columns) > 0
  /\ Len(stmt.values) = Len(stmt.columns)
  /\ result.ret = "True"

Appended == After.rows[Len(After.rows)]

Named(j) == \E i \in 1..Len(stmt.columns) : Position(Target, stmt.columns[i].name) = j

C27_NamedInsertPlaces ==
  NamedInsert =>
    /\ Len(After.rows) = Len(Target.rows) + 1
    /\ \A i \in 1..Len(stmt.columns) :
         Appended[Position(Target, stmt.columns[i].name)]
           = evaluate_expression(stmt.values[i], None, << >>).val
    /\ \A j \in 1..Len(Target.columns) : ~ Named(j) => Appended[j] = PyNone

(***************************************************************************)
(* C27, amended: such an INSERT appends a row that holds value i at the    *)
(* position of the column name i denotes for every i whose column no       *)
(* later name denotes, and null at every column that is not named: of the  *)
(* values given for a column named more than once the last is stored.      *)
(***************************************************************************)
C27_LastNameWins ==
  NamedInsert =>
    /\ Len(After.rows) = Len(Target.rows) + 1
    /\ \A i \in 1..Len(stmt.columns) :
         (\A k \in (i + 1)..Len(stmt.columns) :
            Position(Target, stmt.columns[k].name) # Position(Target, stmt.columns[i].name)) =>
           Appended[Position(Target, stmt.columns[i].name)]
             = evaluate_expression(stmt.values[i], None, << >>).val
    /\ \A j \in 1..Len(Target.columns) : ~ Named(j) => Appended[j] = PyNone

\* INSERT INTO t (b, a) VALUES ('y', 2) has appended the row 2, 'y'
C27_Witness ==
  /\ NamedInsert
  /\ Len(stmt.columns) = 2
  /\ Position(Target, stmt.columns[1].name) = 2
  /\ Position(Target, stmt.columns[2].name) = 1
  /\ Len(Target.rows) > 0
  /\ Appended = << PyInt(2), PyStr(<< "y" >>) >>


(***************************************************************************)
(* C28: in one UPDATE each SET right-hand side is evaluated once, before   *)
(* any row is visited and without a row, so that every updated row gets    *)
(* the same value for the column whatever the row holds; a right-hand      *)
(* side that is a bare name assigns the name as text, not the value of a   *)
(* column of that name.                                                    *)
(***************************************************************************)
\* what a SET right-hand side stands for, whatever the row
Once(expr) ==
  IF expr.type = "IDENTIFIER" THEN PyStr(expr.name)
  ELSE IF expr.type = "LITERAL" THEN expr.value
  ELSE PyStr(expr.left.name \o << "." >> \o expr.right.name)

\* the SET clauses that name column j
Setting(j) ==
  { i \in 1..Len(stmt.set_clauses) : Position(Target, stmt.set_clauses[i].left.name) = j }

\* the row after the assignments of the statement
SetRow(row) ==
  [ j \in 1..Len(row) |->
      IF Setting(j) = {} THEN row[j]
      ELSE Once(stmt.set_clauses[CHOOSE i \in Setting(j) : \A k \in Setting(j) : k <= i].right) ]

C28_SetValuesOnce ==
  (/\ OnTable("UPDATE_STMT")
   /\ \A i \in 1..Len(stmt.set_clauses) :
        Position(Target, stmt.set_clauses[i].left.name) # 0) =>
    /\ Len(After.rows) = Len(Target.rows)
    /\ \A i \in 1..Len(Target.rows) :
         After.rows[i] \in { Target.rows[i], SetRow(Target.rows[i]) }
    /\ result.ret = "True" =>
         \A i \in 1..Len(Target.rows) :
           After.rows[i] = IF i \in Matching(stmt.where_clause, Target)
                             THEN SetRow(Target.rows[i]) ELSE Target.rows[i]

\* UPDATE t SET b = a has given two rows that differed in a and in b the
\* text 'a' for b
C28_Witness ==
  /\ OnTable("UPDATE_STMT")
  /\ result.ret = "True"
  /\ Len(stmt.set_clauses) = 1
  /\ stmt.set_clauses[1].right = Identifier(<< "a" >>)
  /\ Position(Target, stmt.set_clauses[1].left.name) = 2
  /\ Len(Target.rows) = 2
  /\ Target.rows[1][1] # Target.rows[2][1]
  /\ Target.rows[1][2] # Target.rows[2][2]
  /\ After.rows[1][2] = PyStr(<< "a" >>)
  /\ After.rows[2][2] = PyStr(<< "a" >>)

(***************************************************************************)
(* C29: a call of get_next_token either returns EOF or leaves the cursor   *)
(* at least one character further on, and never beyond the end of the      *)
(* input; so of the calls made on a text of n characters at most n return  *)
(* a token that is not EOF, and the first EOF comes with call n + 1 at     *)
(* the latest.                                                             *)
(***************************************************************************)
\* the calls made up to and including the first that returned EOF
CallsUntilEOF(toks) ==
  IF EOFs(toks) = 0 THEN Len(toks)
  ELSE CHOOSE i \in 1..Len(toks) :
         /\ toks[i].type = "EOF"
         /\ \A j \in 1..(i - 1) : toks[j].type # "EOF"

C29_EveryCallMovesOn ==
  [][ returned' # returned =>
        /\ \/ returned'[Len(returned')].type = "EOF"
           \/ tokenizer'.position > tokenizer.position
        /\ tokenizer'.position >= tokenizer.position
        /\ tokenizer'.position <= Len(tokenizer.input)
        /\ Len(returned') - EOFs(returned') <= tokenizer'.position
        /\ CallsUntilEOF(returned') <= Len(tokenizer.input) + 1
    ]_vars

\* a text of which every character is a token was read to its end, and a
\* text that ends within a string literal or holds the character '\0'
C29_Witness ==
  /\ Len(tokenizer.input) = MaxLen
  /\ Len(returned) = MaxLen + 1
  /\ EOFs(returned) = 1
  /\ returned[Len(returned)].type = "EOF"
  /\ \E i \in 1..MaxLen : tokenizer.input[i] = Nul
  /\ \E i \in 1..MaxLen : tokenizer.input[i] = "'"

(***************************************************************************)
(* C30: execute_without_cursor returns False for every query text and      *)
(* leaves the database as it is: Parser.parse is called on the class with  *)
(* the token list as self, the AttributeError is caught, and no statement  *)
(* reaches Database.execute_query.                                         *)
(***************************************************************************)
C30_EditorRunsNothing ==
  stmt.type = "execute_without_cursor" =>
    /\ result.ret = "False"
    /\ result.exc = ""
    /\ tables = prev
    /\ stmt.caught = "AttributeError"
    /\ stmt.executed = << >>

\* a text that a parser made for it parses, and that would change the
\* rows there are, was given to execute_without_cursor
C30_Witness ==
  /\ stmt.type = "execute_without_cursor"
  /\ TotalRows(tables) > 0
  /\ execute_without_cursor_parsing(tables, stmt.query).outcome.tables # tables

====
